---- MODULE Spec2Model ----
(***************************************************************************)
(* Model of router-stats.js: the poll cycle (fetchStats, displayStats,     *)
(* handleDataGap, saveTimeseriesData, calculateBandwidth), the refresh     *)
(* scheduling (initial refresh, setInterval, keypress refresh) and the     *)
(* startup login loop of the Netgear MR1100 monitor.                       *)
(*                                                                         *)
(* JavaScript runs every synchronous stretch of code to completion, so an  *)
(* action is one such stretch: from a callback's start (timer, keypress,   *)
(* settled promise) to its next await or its return.                       *)
(*                                                                         *)
(* Representation.                                                         *)
(*   - An optional value (null / a value) is the sequence << >> / <<v>>.   *)
(*   - A raw JSON field is [kind, n]: "num" (a number or numeric string),  *)
(*     "text" (a string parseInt cannot read), "absent" (undefined).       *)
(*   - A JavaScript number is [nan, n].                                    *)
(*   - A speed (a real number of bytes per second) is the exact fraction   *)
(*     [num, den] with den > 0; floating-point rounding is not modelled.   *)
(***************************************************************************)
EXTENDS Integers, Sequences, FiniteSets, TLC

VARIABLES
    now,                \* Date.now(), ms
    phase,              \* position of main(): "boot", "login", "initial", "polling", "exited"
    exitCode,           \* process exit code once phase = "exited", else -1
    retryCount,         \* main(): retryCount of the login loop
    nextTimer,          \* << >> or <<t>>: when the setInterval timer is due next
    cycles,             \* the refresh() invocations in flight, by slot
    previousStats,      \* << >> (null) or <<snapshot>>
    bandwidthHistory,   \* [download, upload]: in-memory history of speeds
    timeseries_data,    \* rows of the timeseries_data table, in insertion order
    bandwidth_history,  \* rows of the bandwidth_history table, in insertion order
    displayOptions,     \* the display flags
    settings,           \* the persisted copy of displayOptions (<< >> if none)
    polls,              \* number of refresh() invocations started (bounded)
    ticks,              \* number of clock advances (bounded)
    keys,               \* number of toggle keypresses (bounded)
    previousTime,       \* << >> or <<t>>: Date.now() when previousStats was assigned
    last,               \* observation of the most recently finished refresh()
    input               \* raw snapshot under normalisation (SpecAgg only)

vars == <<now, phase, exitCode, retryCount, nextTimer, cycles, previousStats,
          bandwidthHistory, timeseries_data, bandwidth_history, displayOptions,
          settings, polls, ticks, keys, previousTime, last, input>>

(***************************************************************************)
(* Program constants                                                       *)
(***************************************************************************)
POLL_INTERVAL == 5000
maxSamples == 66
maxRetries == 3

(***************************************************************************)
(* Bounds of the model                                                     *)
(***************************************************************************)
MaxPolls == 2
MaxTicks == 1
MaxKeys == 1
MaxInFlight == 2
MaxGap == 10
MaxRows == 2

Slots == 1..MaxInFlight
TimeSteps == {1000, POLL_INTERVAL, 4 * POLL_INTERVAL}

(***************************************************************************)
(* Values                                                                  *)
(***************************************************************************)
Num(n) == [kind |-> "num", n |-> n]
Text == [kind |-> "text", n |-> 0]
Absent == [kind |-> "absent", n |-> 0]

JNum(n) == [nan |-> FALSE, n |-> n]
JNaN == [nan |-> TRUE, n |-> 0]

Zero == [num |-> 0, den |-> 1]
RECURSIVE GCD(_, _)
GCD(m, n) == IF n = 0 THEN m ELSE GCD(n, m % n)

\* equality of two fractions with positive denominators
RatEq(a, b) ==
    LET g == GCD(a.den, b.den)
    IN  a.num * (b.den \div g) = b.num * (a.den \div g)
RatGeq0(a) == a.num >= 0 /\ a.den > 0
RatPos(a) == a.num > 0 /\ a.den > 0

\* parseInt(x): NaN for undefined and for text without a leading number
parseInt(x) == IF x.kind = "num" THEN JNum(x.n) ELSE JNaN

\* parseInt(x) || 0: NaN and 0 are falsy
ParseIntOr0(x) == LET p == parseInt(x) IN IF p.nan \/ p.n = 0 THEN 0 ELSE p.n

\* parseInt(x || 0): undefined and the number 0 are replaced by 0 before parsing
ParseIntOfOr0(x) == IF x.kind = "absent" THEN JNum(0) ELSE parseInt(x)

JAdd(a, b) == IF a.nan \/ b.nan THEN JNaN ELSE JNum(a.n + b.n)

\* binding a JavaScript number to an INTEGER column: NaN is stored as NULL
ToSql(v) == IF v.nan THEN << >> ELSE <<v.n>>

(***************************************************************************)
(* Raw snapshots (the parsed body of /api/model.json)                      *)
(***************************************************************************)
Wwan(present, rx, tx, sig, gen, life, roam) ==
    [present |-> present, dataTransferredRx |-> rx, dataTransferredTx |-> tx,
     signalStrength |-> sig, generic |-> gen, dataTransferred |-> life,
     dataTransferredRoaming |-> roam, sessDuration |-> 60, rsrp |-> -95]

Wifi(present, offload, dt, tx, rx, enabled, statusOn, ssid) ==
    [present |-> present, offload |-> offload, dataTransferred |-> dt,
     tx |-> tx, rx |-> rx, enabled |-> enabled, statusOn |-> statusOn,
     connectionSsid |-> ssid]

Ethernet(present, offload, tx, rx, enabled, on, ip) ==
    [present |-> present, offload |-> offload, tx |-> tx, rx |-> rx,
     enabled |-> enabled, on |-> on, ipv4Addr |-> ip]

NoWifi == Wifi(FALSE, FALSE, FALSE, Absent, Absent, FALSE, FALSE, FALSE)
NoEthernet == Ethernet(FALSE, FALSE, Absent, Absent, FALSE, FALSE, "")

Snapshot(wwan, general, power, router, wifi, ethernet) ==
    [wwan |-> wwan, general |-> general, power |-> power, router |-> router,
     wifi |-> wifi, ethernet |-> ethernet]

(***************************************************************************)
(* displayStats: aggregation of the counters of all sources                *)
(***************************************************************************)
\* data.wifi && data.wifi.offload
wifiOffloadOf(data) == data.wifi.present /\ data.wifi.offload

\* data.ethernet && data.ethernet.offload
ethOffloadOf(data) == data.ethernet.present /\ data.ethernet.offload

\* Aggregate with the offload counters read in the cellular convention
AggregateSameConvention(data) ==
    LET hasWifi == wifiOffloadOf(data) /\ data.wifi.dataTransferred
        hasEth == ethOffloadOf(data)
    IN  [totalDownload |->
             ParseIntOr0(data.wwan.dataTransferredRx)
                 + (IF hasWifi THEN ParseIntOr0(data.wifi.rx) ELSE 0)
                 + (IF hasEth THEN ParseIntOr0(data.ethernet.rx) ELSE 0),
         totalUpload |->
             ParseIntOr0(data.wwan.dataTransferredTx)
                 + (IF hasWifi THEN ParseIntOr0(data.wifi.tx) ELSE 0)
                 + (IF hasEth THEN ParseIntOr0(data.ethernet.tx) ELSE 0)]

\* totalDownload / totalUpload of displayStats (also recomputed there for
\* previousStats, by the same statements)
Aggregate(data) ==
    LET cellDown == ParseIntOr0(data.wwan.dataTransferredRx)
        cellUp == ParseIntOr0(data.wwan.dataTransferredTx)
        hasWifi == wifiOffloadOf(data) /\ data.wifi.dataTransferred
        wifiDown == IF hasWifi THEN ParseIntOr0(data.wifi.tx) ELSE 0
        wifiUp == IF hasWifi THEN ParseIntOr0(data.wifi.rx) ELSE 0
        hasEth == ethOffloadOf(data)
        ethDown == IF hasEth THEN ParseIntOr0(data.ethernet.tx) ELSE 0
        ethUp == IF hasEth THEN ParseIntOr0(data.ethernet.rx) ELSE 0
    IN  [totalDownload |-> cellDown + wifiDown + ethDown,
         totalUpload |-> cellUp + wifiUp + ethUp]

\* totalLifetimeBytes of displayStats
TotalLifetimeBytes(data) ==
    JAdd(ParseIntOfOr0(data.wwan.dataTransferred),
         ParseIntOfOr0(data.wwan.dataTransferredRoaming))

\* wifiOffloadActiveOf holding only when the offload counters are present
wifiOffloadActiveNeedsCounters(data) ==
    wifiOffloadOf(data) /\ data.wifi.dataTransferred /\ data.wifi.enabled
        /\ data.wifi.statusOn /\ data.wifi.connectionSsid

wifiOffloadActiveOf(data) ==
    wifiOffloadOf(data) /\ data.wifi.enabled /\ data.wifi.statusOn
        /\ data.wifi.connectionSsid

ethernetOffloadActiveOf(data) ==
    ethOffloadOf(data) /\ data.ethernet.enabled /\ data.ethernet.on
        /\ data.ethernet.ipv4Addr # "" /\ data.ethernet.ipv4Addr # "0.0.0.0"

\* the per-source breakdown displayStats computes for the record
Breakdown(data) ==
    LET hasWifi == wifiOffloadOf(data) /\ data.wifi.dataTransferred
    IN  [cellularDownload |-> ParseIntOr0(data.wwan.dataTransferredRx),
         cellularUpload |-> ParseIntOr0(data.wwan.dataTransferredTx),
         wifiOffloadDownload |-> IF hasWifi THEN ParseIntOr0(data.wifi.tx) ELSE 0,
         wifiOffloadUpload |-> IF hasWifi THEN ParseIntOr0(data.wifi.rx) ELSE 0,
         wifiOffloadActive |-> wifiOffloadActiveOf(data),
         ethernetOffloadDownload |->
             IF ethOffloadOf(data) THEN ParseIntOr0(data.ethernet.tx) ELSE 0,
         ethernetOffloadUpload |->
             IF ethOffloadOf(data) THEN ParseIntOr0(data.ethernet.rx) ELSE 0,
         ethernetOffloadActive |-> ethernetOffloadActiveOf(data)]

(***************************************************************************)
(* calculateBandwidth                                                      *)
(***************************************************************************)
\* Max0 without the clamp
Max0NoClamp(x) == x

\* Math.max(0, x)
Max0(x) == IF x.num < 0 THEN Zero ELSE x

calculateBandwidth(currentBytes, previousBytes, timeInterval) ==
    IF previousBytes = 0
    THEN Zero
    ELSE LET bytesDiff == currentBytes - previousBytes
         IN  Max0([num |-> bytesDiff * 1000, den |-> timeInterval])

(***************************************************************************)
(* The timeseries_data table                                               *)
(***************************************************************************)
\* saveTimeseriesData overwriting the newest record instead of inserting
saveTimeseriesDataReplacing(rows, timestamp, totalRx, totalTx, sessionDuration, lifetimeBytes, signalRsrp, b) ==
    LET row == [timestamp |-> timestamp,
                total_rx_bytes |-> totalRx,
                total_tx_bytes |-> totalTx,
                session_duration |-> sessionDuration,
                lifetime_bytes |-> ToSql(lifetimeBytes),
                signal_rsrp |-> <<signalRsrp>>,
                cellular_download |-> <<b.cellularDownload>>,
                cellular_upload |-> <<b.cellularUpload>>,
                wifi_offload_download |-> <<b.wifiOffloadDownload>>,
                wifi_offload_upload |-> <<b.wifiOffloadUpload>>,
                wifi_offload_active |-> <<IF b.wifiOffloadActive THEN 1 ELSE 0>>,
                ethernet_offload_download |-> <<b.ethernetOffloadDownload>>,
                ethernet_offload_upload |-> <<b.ethernetOffloadUpload>>,
                ethernet_offload_active |-> <<IF b.ethernetOffloadActive THEN 1 ELSE 0>>]
    IN  IF rows = << >> THEN <<row>> ELSE [rows EXCEPT ![Len(rows)] = row]

\* INSERT of saveTimeseriesData: the parameters are, in order, timestamp,
\* totalRx, totalTx, ...; each is stored in the column of that position
saveTimeseriesData(rows, timestamp, totalRx, totalTx, sessionDuration, lifetimeBytes, signalRsrp, b) ==
    Append(rows,
        [timestamp |-> timestamp,
         total_rx_bytes |-> totalRx,
         total_tx_bytes |-> totalTx,
         session_duration |-> sessionDuration,
         lifetime_bytes |-> ToSql(lifetimeBytes),
         signal_rsrp |-> <<signalRsrp>>,
         cellular_download |-> <<b.cellularDownload>>,
         cellular_upload |-> <<b.cellularUpload>>,
         wifi_offload_download |-> <<b.wifiOffloadDownload>>,
         wifi_offload_upload |-> <<b.wifiOffloadUpload>>,
         wifi_offload_active |-> <<IF b.wifiOffloadActive THEN 1 ELSE 0>>,
         ethernet_offload_download |-> <<b.ethernetOffloadDownload>>,
         ethernet_offload_upload |-> <<b.ethernetOffloadUpload>>,
         ethernet_offload_active |-> <<IF b.ethernetOffloadActive THEN 1 ELSE 0>>])

\* a record inserted by handleDataGap: zero session counters, NULL elsewhere
InterpolatedRow(timestamp, lifetime) ==
    [timestamp |-> timestamp, total_rx_bytes |-> 0, total_tx_bytes |-> 0,
     session_duration |-> 0, lifetime_bytes |-> <<lifetime>>,
     signal_rsrp |-> << >>, cellular_download |-> << >>,
     cellular_upload |-> << >>, wifi_offload_download |-> << >>,
     wifi_offload_upload |-> << >>, wifi_offload_active |-> << >>,
     ethernet_offload_download |-> << >>, ethernet_offload_upload |-> << >>,
     ethernet_offload_active |-> << >>]

\* the rows the query of handleDataGap can return: a row with a lifetime
\* value and the greatest timestamp (SQL leaves the choice among equal
\* timestamps open)
LastEntries(rows) ==
    {i \in DOMAIN rows :
        /\ rows[i].lifetime_bytes # << >>
        /\ \A j \in DOMAIN rows :
              rows[j].lifetime_bytes # << >> => rows[j].timestamp <= rows[i].timestamp}

\* InsertInterpolated adding the whole lifetime delta per interval
InsertInterpolatedWholeDelta(rows, lastEntry, lifetimeDelta, numIntervals) ==
    rows \o [i \in 1..(numIntervals - 1) |->
                InterpolatedRow(lastEntry.timestamp + i * POLL_INTERVAL,
                    lastEntry.lifetime_bytes[1] + lifetimeDelta * i)]

\* InsertInterpolated counting its records from the last record itself
InsertInterpolatedFromZero(rows, lastEntry, lifetimeDelta, numIntervals) ==
    rows \o [i \in 1..(numIntervals - 1) |->
                InterpolatedRow(lastEntry.timestamp + (i - 1) * POLL_INTERVAL,
                    lastEntry.lifetime_bytes[1]
                        + (lifetimeDelta * (i - 1)) \div numIntervals)]

\* InsertInterpolated filling the first half of the gap only
InsertInterpolatedHalfway(rows, lastEntry, lifetimeDelta, numIntervals) ==
    rows \o [i \in 1..(numIntervals \div 2) |->
                InterpolatedRow(lastEntry.timestamp + i * POLL_INTERVAL,
                    lastEntry.lifetime_bytes[1] + (lifetimeDelta * i) \div numIntervals)]

\* InsertInterpolated stopping one record early
InsertInterpolatedOneShort(rows, lastEntry, lifetimeDelta, numIntervals) ==
    rows \o [i \in 1..(numIntervals - 2) |->
                InterpolatedRow(lastEntry.timestamp + i * POLL_INTERVAL,
                    lastEntry.lifetime_bytes[1] + (lifetimeDelta * i) \div numIntervals)]

\* the loop of handleDataGap: for (i = 1; i < numIntervals; i++) insert
InsertInterpolated(rows, lastEntry, lifetimeDelta, numIntervals) ==
    rows \o [i \in 1..(numIntervals - 1) |->
                InterpolatedRow(lastEntry.timestamp + i * POLL_INTERVAL,
                    lastEntry.lifetime_bytes[1] + (lifetimeDelta * i) \div numIntervals)]

\* handleDataGapReturns counting a gap of exactly three poll intervals
handleDataGapReturnsAtThreshold(rows, last0, currentTimestamp, lifetimeBytes) ==
    /\ last0 # 0
    /\ currentTimestamp - rows[last0].timestamp >= POLL_INTERVAL * 3
    /\ ~lifetimeBytes.nan
    /\ lifetimeBytes.n > rows[last0].lifetime_bytes[1]
    /\ (currentTimestamp - rows[last0].timestamp) \div POLL_INTERVAL
           < (24 * 60 * 60 * 1000) \div POLL_INTERVAL

\* the value handleDataGap returns, given the row its query returned
\* (last0 = 0: no row): true exactly when it takes the inserting branch
handleDataGapReturns(rows, last0, currentTimestamp, lifetimeBytes) ==
    IF last0 = 0
    THEN FALSE
    ELSE LET lastEntry == rows[last0]
             timeSinceLastPoll == currentTimestamp - lastEntry.timestamp
             gapThreshold == POLL_INTERVAL * 3
         IN  IF /\ timeSinceLastPoll > gapThreshold
                /\ ~lifetimeBytes.nan
                /\ lifetimeBytes.n > lastEntry.lifetime_bytes[1]
             THEN LET lifetimeDelta == lifetimeBytes.n - lastEntry.lifetime_bytes[1]
                      numIntervals == timeSinceLastPoll \div POLL_INTERVAL
                  IN  /\ numIntervals > 0
                      /\ numIntervals < (24 * 60 * 60 * 1000) \div POLL_INTERVAL
                      /\ lifetimeDelta > 0
             ELSE FALSE

\* handleDataGap: the table after the call
handleDataGap(rows, last0, currentTimestamp, lifetimeBytes) ==
    IF handleDataGapReturns(rows, last0, currentTimestamp, lifetimeBytes)
    THEN LET lastEntry == rows[last0]
             timeSinceLastPoll == currentTimestamp - lastEntry.timestamp
             lifetimeDelta == lifetimeBytes.n - lastEntry.lifetime_bytes[1]
             numIntervals == timeSinceLastPoll \div POLL_INTERVAL
         IN  InsertInterpolated(rows, lastEntry, lifetimeDelta, numIntervals)
    ELSE rows

\* the windows of calculateUsageOverTime, in ms
Periods ==
    [label \in {"5m", "15m", "30m", "45m", "1h", "6h", "12h", "24h"} |->
        CASE label = "5m" -> 5 * 60 * 1000
          [] label = "15m" -> 15 * 60 * 1000
          [] label = "30m" -> 30 * 60 * 1000
          [] label = "45m" -> 45 * 60 * 1000
          [] label = "1h" -> 60 * 60 * 1000
          [] label = "6h" -> 6 * 60 * 60 * 1000
          [] label = "12h" -> 12 * 60 * 60 * 1000
          [] label = "24h" -> 24 * 60 * 60 * 1000]

\* SQL MIN and MAX over a non-empty set of integers
MinOf(S) == CHOOSE x \in S : \A y \in S : x <= y
MaxOf(S) == CHOOSE x \in S : \A y \in S : y <= x

\* calculateUsageOverTime taking the newest record minus the oldest one
calculateUsageOverTimeNewestMinusOldest(rows, t) ==
    [label \in DOMAIN Periods |->
        LET cutoffTime == t - Periods[label]
            inside == {j \in DOMAIN rows : rows[j].timestamp >= cutoffTime}
            newest == CHOOSE i \in inside :
                          \A j \in inside : rows[j].timestamp <= rows[i].timestamp
            oldest == CHOOSE i \in inside :
                          \A j \in inside : rows[i].timestamp <= rows[j].timestamp
        IN  IF inside = {} THEN << >>
            ELSE <<(rows[newest].total_rx_bytes + rows[newest].total_tx_bytes)
                     - (rows[oldest].total_rx_bytes + rows[oldest].total_tx_bytes)>>]

\* calculateUsageOverTime leaving out the records at the cutoff itself
calculateUsageOverTimeAfterCutoff(rows, t) ==
    [label \in DOMAIN Periods |->
        LET cutoffTime == t - Periods[label]
            bytes == {rows[i].total_rx_bytes + rows[i].total_tx_bytes :
                         i \in {j \in DOMAIN rows : rows[j].timestamp > cutoffTime}}
        IN  IF bytes = {} THEN << >> ELSE <<MaxOf(bytes) - MinOf(bytes)>>]

\* calculateUsageOverTime at time t: per window, null (<< >>) when MIN and
\* MAX are NULL (no row in the window), else end_bytes - start_bytes
calculateUsageOverTime(rows, t) ==
    [label \in DOMAIN Periods |->
        LET cutoffTime == t - Periods[label]
            bytes == {rows[i].total_rx_bytes + rows[i].total_tx_bytes :
                         i \in {j \in DOMAIN rows : rows[j].timestamp >= cutoffTime}}
        IN  IF bytes = {} THEN << >> ELSE <<MaxOf(bytes) - MinOf(bytes)>>]

\* saveBandwidthData
saveBandwidthData(rows, timestamp, downloadSpeed, uploadSpeed) ==
    Append(rows, [timestamp |-> timestamp, download_speed |-> downloadSpeed,
                  upload_speed |-> uploadSpeed])

\* PushHistory without the shift
PushHistoryNoShift(h, downloadSpeed, uploadSpeed) ==
    [download |-> Append(h.download, downloadSpeed),
     upload |-> Append(h.upload, uploadSpeed)]

\* push onto bandwidthHistory, shifting the oldest sample out when over maxSamples
PushHistory(h, downloadSpeed, uploadSpeed) ==
    LET d == Append(h.download, downloadSpeed)
        u == Append(h.upload, uploadSpeed)
    IN  IF Len(d) > maxSamples
        THEN [download |-> Tail(d), upload |-> Tail(u)]
        ELSE [download |-> d, upload |-> u]

(***************************************************************************)
(* displayStats                                                            *)
(***************************************************************************)
\* The effect of displayStats(data) at time timestamp.  outcome is "ok" (ran
\* to its end), "skipped" (returned early from a validation) or "threw" (an
\* exception left it; what had been written before stays written).
\* last0 is the row the query of handleDataGap returns, fail names the
\* statement that the database rejects ("none", "timeseries").
\* the panels with only the WiFi offload considered for the warning
offloadWarningsWifiOnly(data) ==
    IF ~data.wwan.present \/ ~data.general \/ ~data.power
    THEN {}
    ELSE {p \in {"network"} :
             displayOptions.showNetwork /\ wifiOffloadActiveOf(data)}
         \cup {p \in {"bandwidth"} :
             /\ data.wwan.generic
             /\ displayOptions.showBandwidth
             /\ wifiOffloadActiveOf(data)}

\* the panels in which displayStats prints the offload warning: the note of
\* the network panel and the header of the bandwidth panel
offloadWarnings(data) ==
    IF ~data.wwan.present \/ ~data.general \/ ~data.power
    THEN {}
    ELSE {p \in {"network"} :
             /\ displayOptions.showNetwork
             /\ wifiOffloadActiveOf(data) \/ ethernetOffloadActiveOf(data)}
         \cup {p \in {"bandwidth"} :
             /\ data.wwan.generic
             /\ displayOptions.showBandwidth
             /\ wifiOffloadActiveOf(data) \/ ethernetOffloadActiveOf(data)}

displayStatsWith(options, data, timestamp, last0, fail) ==
    LET Res(outcome, rows, speeds, hist, sample, agg) ==
            [outcome |-> outcome, timeseries_data |-> rows,
             bandwidth_history |-> speeds, bandwidthHistory |-> hist,
             sample |-> sample, aggregate |-> agg,
             warnings |-> offloadWarnings(data)]
        Untouched(outcome) ==
            Res(outcome, timeseries_data, bandwidth_history, bandwidthHistory,
                << >>, << >>)
        offloadActive == wifiOffloadActiveOf(data) \/ ethernetOffloadActiveOf(data)
        agg == Aggregate(data)
        totalLifetimeBytes == TotalLifetimeBytes(data)
        rowsGap == handleDataGap(timeseries_data, last0, timestamp, totalLifetimeBytes)
        rowsSaved ==
            saveTimeseriesData(rowsGap, timestamp, agg.totalUpload,
                agg.totalDownload, data.wwan.sessDuration, totalLifetimeBytes,
                data.wwan.rsrp, Breakdown(data))
        prev == previousStats[1]
        prevAgg == Aggregate(prev)
        timeDiff == POLL_INTERVAL
        downloadSpeed ==
            calculateBandwidth(agg.totalDownload, prevAgg.totalDownload, timeDiff)
        uploadSpeed ==
            calculateBandwidth(agg.totalUpload, prevAgg.totalUpload, timeDiff)
        sample == [download |-> downloadSpeed, upload |-> uploadSpeed]
        \* data.router.clientList is read after the bandwidth panel, and the
        \* device panel reads wifi.SSID
        tail == IF ~data.router THEN "threw"
                ELSE IF options.showDevice /\ ~data.wifi.present THEN "threw"
                ELSE "ok"
    IN  IF ~data.wwan.present \/ ~data.general \/ ~data.power
        THEN Untouched("skipped")
        ELSE IF /\ options.showNetwork
                /\ ~offloadActive
                /\ ~data.wwan.signalStrength
        THEN Untouched("threw")              \* signal.bars of undefined
        ELSE IF ~data.wwan.generic
        THEN Untouched("skipped")
        ELSE IF ~data.wwan.signalStrength
        THEN Res("threw", rowsGap, bandwidth_history, bandwidthHistory,
                 << >>, <<agg>>)             \* signal.rsrp of undefined
        ELSE IF fail = "timeseries"
        THEN Res("threw", rowsGap, bandwidth_history, bandwidthHistory,
                 << >>, <<agg>>)             \* stmt.run throws
        ELSE IF previousStats = << >>
        THEN Res(tail, rowsSaved, bandwidth_history, bandwidthHistory,
                 << >>, <<agg>>)
        ELSE IF ~prev.wwan.present
        THEN Res("threw", rowsSaved, bandwidth_history, bandwidthHistory,
                 << >>, <<agg>>)             \* previousStats.wwan is undefined
        ELSE Res(tail, rowsSaved,
                 saveBandwidthData(bandwidth_history, timestamp,
                                   downloadSpeed, uploadSpeed),
                 PushHistory(bandwidthHistory, downloadSpeed, uploadSpeed),
                 <<sample>>, <<agg>>)

\* displayStats(data) under the display flags of the run
displayStats(data, timestamp, last0, fail) ==
    displayStatsWith(displayOptions, data, timestamp, last0, fail)

(***************************************************************************)
(* Startup: history seeding and retention                                  *)
(***************************************************************************)
Min(a, b) == IF a < b THEN a ELSE b

Reverse(q) == [i \in 1..Len(q) |-> q[Len(q) + 1 - i]]

\* ORDER BY timestamp DESC over the index on timestamp: rows of equal
\* timestamp come in insertion order
OrderByTimestampDesc(rows, idx) ==
    LET Before(j, i) ==
            \/ rows[j].timestamp > rows[i].timestamp
            \/ rows[j].timestamp = rows[i].timestamp /\ j < i
        Position(i) == 1 + Cardinality({j \in idx : Before(j, i)})
    IN  [p \in 1..Cardinality(idx) |->
            rows[CHOOSE i \in idx : Position(i) = p]]

\* SELECT ... ORDER BY timestamp DESC LIMIT n
SelectLatest(rows, n) ==
    LET sorted == OrderByTimestampDesc(rows, DOMAIN rows)
    IN  SubSeq(sorted, 1, Min(n, Len(sorted)))

\* SpeedsOf without the rollover test
SpeedsOfEveryPair(rows) ==
    LET RxDiff(i) == rows[i].total_rx_bytes - rows[i - 1].total_rx_bytes
        TxDiff(i) == rows[i].total_tx_bytes - rows[i - 1].total_tx_bytes
        TimeDiffMs(i) == rows[i].timestamp - rows[i - 1].timestamp
        kept == {i \in 2..Len(rows) : TimeDiffMs(i) > 0}
        Nth(k) == CHOOSE i \in kept : Cardinality({j \in kept : j <= i}) = k
    IN  [download |-> [k \in 1..Cardinality(kept) |->
                          [num |-> RxDiff(Nth(k)) * 1000, den |-> TimeDiffMs(Nth(k))]],
         upload |-> [k \in 1..Cardinality(kept) |->
                        [num |-> TxDiff(Nth(k)) * 1000, den |-> TimeDiffMs(Nth(k))]],
         timestamps |-> [k \in 1..Cardinality(kept) |-> rows[Nth(k)].timestamp]]

\* the loop of calculateSpeedsFromTimeseries over rows (oldest first): one
\* sample per pair of consecutive rows that passes the rollover test
SpeedsOf(rows) ==
    LET RxDiff(i) == rows[i].total_rx_bytes - rows[i - 1].total_rx_bytes
        TxDiff(i) == rows[i].total_tx_bytes - rows[i - 1].total_tx_bytes
        TimeDiffMs(i) == rows[i].timestamp - rows[i - 1].timestamp
        kept == {i \in 2..Len(rows) :
                    RxDiff(i) >= 0 /\ TxDiff(i) >= 0 /\ TimeDiffMs(i) > 0}
        Nth(k) == CHOOSE i \in kept : Cardinality({j \in kept : j <= i}) = k
    IN  [download |-> [k \in 1..Cardinality(kept) |->
                          [num |-> RxDiff(Nth(k)) * 1000, den |-> TimeDiffMs(Nth(k))]],
         upload |-> [k \in 1..Cardinality(kept) |->
                        [num |-> TxDiff(Nth(k)) * 1000, den |-> TimeDiffMs(Nth(k))]],
         timestamps |-> [k \in 1..Cardinality(kept) |-> rows[Nth(k)].timestamp]]

calculateSpeedsFromTimeseries(table, limit) ==
    LET rows == SelectLatest(table, limit + 1)
        none == [download |-> << >>, upload |-> << >>, timestamps |-> << >>]
    IN  IF Len(rows) < 2 THEN none ELSE SpeedsOf(Reverse(rows))

loadBandwidthHistory(table, n) ==
    LET rows == Reverse(SelectLatest(table, n))
    IN  [download |-> [i \in 1..Len(rows) |-> rows[i].download_speed],
         upload |-> [i \in 1..Len(rows) |-> rows[i].upload_speed]]

\* cleanOldData deleting the records at the cutoff as well
cleanOldDataThroughCutoff(table, daysToKeep, t) ==
    LET cutoffTime == t - daysToKeep * 24 * 60 * 60 * 1000
    IN  SelectSeq(table, LAMBDA r : ~(r.timestamp <= cutoffTime))

\* DELETE FROM <table> WHERE timestamp < cutoffTime
cleanOldData(table, daysToKeep, t) ==
    LET cutoffTime == t - daysToKeep * 24 * 60 * 60 * 1000
    IN  SelectSeq(table, LAMBDA r : ~(r.timestamp < cutoffTime))

DefaultDisplayOptions ==
    [showNetwork |-> TRUE, showBandwidth |-> TRUE, showDevice |-> FALSE,
     showVerbose |-> FALSE, showHistory |-> FALSE]

\* loadSettings: the saved flags override the defaults
loadSettings(saved) == IF saved = << >> THEN DefaultDisplayOptions ELSE saved[1]

(***************************************************************************)
(* refresh() invocations                                                   *)
(***************************************************************************)
\* pc: "idle", "stats" (awaiting the response of the stats request),
\* "initSession", "login" (awaiting the two steps of reAuthenticate)
IdleCycle ==
    [pc |-> "idle", trigger |-> "none", retryOnAuthFailure |-> TRUE,
     requests |-> 0, reauths |-> 0, reauthOk |-> FALSE, started |-> 0]

\* refresh() up to the await of the first stats request
StartedCycle(trigger, seq) ==
    [pc |-> "stats", trigger |-> trigger, retryOnAuthFailure |-> TRUE,
     requests |-> 1, reauths |-> 0, reauthOk |-> FALSE, started |-> seq]

InFlight == {s \in Slots : cycles[s].pc # "idle"}
FreeSlots == Slots \ InFlight
FirstFree == CHOOSE s \in FreeSlots : \A o \in FreeSlots : s <= o

NoLast ==
    [kind |-> "none", trigger |-> "none", requests |-> 0, reauths |-> 0,
     reauthOk |-> FALSE, started |-> 0, data |-> << >>, timestamp |-> 0,
     prev |-> << >>, prevTime |-> << >>, sample |-> << >>, aggregate |-> << >>,
     inserted |-> 0, fail |-> "none", alive |-> TRUE,
     lastEntry |-> << >>, returned |-> FALSE, usage |-> << >>,
     warnings |-> {}, attempt |-> 0, initSession |-> FALSE, login |-> FALSE]

Observe(kind, c, data, r, rowsBefore, fail, alive) ==
    [kind |-> kind, trigger |-> c.trigger, requests |-> c.requests,
     reauths |-> c.reauths, reauthOk |-> c.reauthOk, started |-> c.started,
     data |-> data, timestamp |-> now, prev |-> previousStats,
     prevTime |-> previousTime, sample |-> r.sample, aggregate |-> r.aggregate,
     inserted |-> Len(r.timeseries_data) - rowsBefore, fail |-> fail,
     alive |-> alive, lastEntry |-> << >>, returned |-> FALSE, usage |-> << >>,
     warnings |-> r.warnings, attempt |-> 0, initSession |-> FALSE,
     login |-> FALSE]

(***************************************************************************)
(* Inputs                                                                  *)
(***************************************************************************)
ActiveWifi(tx, rx) == Wifi(TRUE, TRUE, TRUE, Num(tx), Num(rx), TRUE, TRUE, TRUE)
ActiveEthernet(tx, rx) == Ethernet(TRUE, TRUE, Num(tx), Num(rx), TRUE, TRUE, "addr")

Cellular(rx, tx, life) ==
    Snapshot(Wwan(TRUE, Num(rx), Num(tx), TRUE, TRUE, Num(life), Num(0)),
             TRUE, TRUE, TRUE, NoWifi, NoEthernet)

\* well-formed snapshots the router answers with during a run
GoodSnapshots ==
    {Cellular(1000, 200, 1000), Cellular(1500, 300, 2000),
     Cellular(0, 200, 1000), Cellular(1500, 200, 2000),
     Cellular(1000, 300, 2000),
     [Cellular(100, 50, 1000) EXCEPT !.wifi = ActiveWifi(30, 10)]}

\* snapshots that validate badly or make displayStats throw
BadSnapshots ==
    {[Cellular(1000, 200, 1000) EXCEPT !.wwan.present = FALSE],
     [Cellular(1000, 200, 1000) EXCEPT !.general = FALSE],
     [Cellular(1000, 200, 1000) EXCEPT !.power = FALSE],
     [Cellular(1000, 200, 1000) EXCEPT !.wwan.generic = FALSE],
     [Cellular(1000, 200, 2000) EXCEPT !.wwan.signalStrength = FALSE],
     [Cellular(1000, 200, 1000) EXCEPT !.router = FALSE]}

PollSnapshots == GoodSnapshots \cup BadSnapshots

HttpOutcomes == {"json", "html", "badjson", "neterr", "othererr"}
StorageFailures == {"none", "timeseries"}
ToggleKeys == {"showNetwork", "showBandwidth", "showHistory", "showDevice",
               "showVerbose"}
\* the toggles whose flag displayStats reads before it writes
PressedKeys == {"showNetwork", "showBandwidth"}

(***************************************************************************)
(* Actions                                                                 *)
(***************************************************************************)
Init ==
    /\ now = 0
    /\ phase = "boot"
    /\ exitCode = -1
    /\ retryCount = 0
    /\ nextTimer = << >>
    /\ cycles = [s \in Slots |-> IdleCycle]
    /\ previousStats = << >>
    /\ previousTime = << >>
    /\ bandwidthHistory = [download |-> << >>, upload |-> << >>]
    /\ timeseries_data = << >>
    /\ bandwidth_history = << >>
    /\ displayOptions = DefaultDisplayOptions
    /\ settings = << >>
    /\ polls = 0
    /\ ticks = 0
    /\ keys = 0
    /\ last = NoLast
    /\ input = Cellular(0, 0, 0)

\* main() up to the login loop: loadSettings, history seeding, cleanOldData(7)
MainStart ==
    /\ phase = "boot"
    /\ displayOptions' = loadSettings(settings)
    /\ LET timeseriesHistory == calculateSpeedsFromTimeseries(timeseries_data, maxSamples)
           historyFromDb == loadBandwidthHistory(bandwidth_history, maxSamples)
       IN  bandwidthHistory' =
               IF Len(timeseriesHistory.download) > 0
               THEN [download |-> timeseriesHistory.download,
                     upload |-> timeseriesHistory.upload]
               ELSE historyFromDb
    /\ timeseries_data' = cleanOldData(timeseries_data, 7, now)
    /\ bandwidth_history' = cleanOldData(bandwidth_history, 7, now)
    /\ phase' = "login"
    /\ UNCHANGED <<now, exitCode, retryCount, nextTimer, cycles, previousStats,
                   previousTime, settings, polls, ticks, keys, last, input>>

\* LoginAttempt going on to the polling once initSession() succeeded
LoginAttemptWithoutLogin(initOk, loginOk) ==
    /\ phase = "login"
    /\ retryCount < maxRetries
    /\ IF initOk
       THEN /\ polls < MaxPolls
            /\ phase' = "initial"
            /\ cycles' = [cycles EXCEPT ![1] = StartedCycle("initial", polls + 1)]
            /\ polls' = polls + 1
            /\ retryCount' = 0            \* a local of main(), dead after the loop
            /\ UNCHANGED exitCode
       ELSE /\ retryCount' = retryCount + 1
            /\ IF retryCount + 1 < maxRetries
               THEN UNCHANGED <<phase, exitCode>>
               ELSE phase' = "exited" /\ exitCode' = 1
            /\ UNCHANGED <<cycles, polls>>
    \* login() is awaited only after initSession() succeeded
    /\ last' = [NoLast EXCEPT !.kind = "login", !.attempt = retryCount + 1,
                              !.initSession = initOk,
                              !.login = initOk /\ loginOk]
    /\ UNCHANGED <<now, nextTimer, previousStats, previousTime, bandwidthHistory,
                   timeseries_data, bandwidth_history, displayOptions, settings,
                   ticks, keys, input>>

\* one pass of the login loop of main(); on success main() goes on to
\* setupKeyboardInput and the initial refresh()
LoginAttempt(initOk, loginOk) ==
    /\ phase = "login"
    /\ retryCount < maxRetries
    /\ IF initOk /\ loginOk
       THEN /\ polls < MaxPolls
            /\ phase' = "initial"
            /\ cycles' = [cycles EXCEPT ![1] = StartedCycle("initial", polls + 1)]
            /\ polls' = polls + 1
            /\ retryCount' = 0            \* a local of main(), dead after the loop
            /\ UNCHANGED exitCode
       ELSE /\ retryCount' = retryCount + 1
            /\ IF retryCount + 1 < maxRetries
               THEN UNCHANGED <<phase, exitCode>>
               ELSE phase' = "exited" /\ exitCode' = 1
            /\ UNCHANGED <<cycles, polls>>
    \* login() is awaited only after initSession() succeeded
    /\ last' = [NoLast EXCEPT !.kind = "login", !.attempt = retryCount + 1,
                              !.initSession = initOk,
                              !.login = initOk /\ loginOk]
    /\ UNCHANGED <<now, nextTimer, previousStats, previousTime, bandwidthHistory,
                   timeseries_data, bandwidth_history, displayOptions, settings,
                   ticks, keys, input>>

\* the setInterval callback: refresh() up to its first await
TimerTick ==
    /\ phase = "polling"
    /\ nextTimer # << >>
    /\ now >= nextTimer[1]
    /\ polls < MaxPolls
    /\ FreeSlots # {}
    /\ cycles' = [cycles EXCEPT ![FirstFree] = StartedCycle("timer", polls + 1)]
    /\ polls' = polls + 1
    /\ nextTimer' = <<now + POLL_INTERVAL>>
    /\ UNCHANGED <<now, phase, exitCode, retryCount, previousStats, previousTime,
                   bandwidthHistory, timeseries_data, bandwidth_history,
                   displayOptions, settings, ticks, keys, last, input>>

\* KeyToggle emptying the in-memory history along with the toggle
KeyToggleResetsHistory(k) ==
    /\ phase \in {"initial", "polling"}
    /\ keys < MaxKeys
    /\ polls < MaxPolls
    /\ FreeSlots # {}
    /\ displayOptions' = [displayOptions EXCEPT ![k] = ~@]
    /\ settings' = <<displayOptions'>>
    /\ bandwidthHistory' = [download |-> << >>, upload |-> << >>]
    /\ cycles' = [cycles EXCEPT ![FirstFree] = StartedCycle("key", polls + 1)]
    /\ polls' = polls + 1
    /\ keys' = keys + 1
    /\ UNCHANGED <<now, phase, exitCode, retryCount, nextTimer, previousStats,
                   previousTime, timeseries_data,
                   bandwidth_history, ticks, last, input>>

\* the keypress handler for n, b, h, d, v: toggle, saveSettings, refresh()
KeyToggle(k) ==
    /\ phase \in {"initial", "polling"}
    /\ keys < MaxKeys
    /\ polls < MaxPolls
    /\ FreeSlots # {}
    /\ displayOptions' = [displayOptions EXCEPT ![k] = ~@]
    /\ settings' = <<displayOptions'>>
    /\ cycles' = [cycles EXCEPT ![FirstFree] = StartedCycle("key", polls + 1)]
    /\ polls' = polls + 1
    /\ keys' = keys + 1
    /\ UNCHANGED <<now, phase, exitCode, retryCount, nextTimer, previousStats,
                   previousTime, bandwidthHistory, timeseries_data,
                   bandwidth_history, ticks, last, input>>

\* q, r, Ctrl+C or SIGINT: process.exit(0)
Quit ==
    /\ phase # "exited"
    /\ phase' = "exited"
    /\ exitCode' = 0
    /\ UNCHANGED <<now, retryCount, nextTimer, cycles, previousStats, previousTime,
                   bandwidthHistory, timeseries_data, bandwidth_history,
                   displayOptions, settings, polls, ticks, keys, last, input>>

\* time passes between the callbacks of a run
Tick(d) ==
    /\ phase \in {"initial", "polling"}
    /\ ticks < MaxTicks
    /\ now' = now + d
    /\ ticks' = ticks + 1
    /\ UNCHANGED <<phase, exitCode, retryCount, nextTimer, cycles, previousStats,
                   previousTime, bandwidthHistory, timeseries_data,
                   bandwidth_history, displayOptions, settings, polls, keys, last, input>>

\* ReturnNull forgetting the previous snapshot
ReturnNullForgetsPrevious(s) ==
    /\ cycles' = [cycles EXCEPT ![s] = IdleCycle]
    /\ IF cycles[s].trigger = "initial"
       THEN phase' = "polling" /\ nextTimer' = <<now + POLL_INTERVAL>>
       ELSE UNCHANGED <<phase, nextTimer>>
    /\ previousStats' = << >>
    /\ UNCHANGED <<now, exitCode, retryCount, previousTime,
                   bandwidthHistory, timeseries_data, bandwidth_history,
                   displayOptions, settings, polls, ticks, keys, last, input>>

\* refresh() after fetchStats() returned null: nothing else happens; after
\* the initial refresh main() arms the interval timer
ReturnNull(s) ==
    /\ cycles' = [cycles EXCEPT ![s] = IdleCycle]
    /\ IF cycles[s].trigger = "initial"
       THEN phase' = "polling" /\ nextTimer' = <<now + POLL_INTERVAL>>
       ELSE UNCHANGED <<phase, nextTimer>>
    /\ UNCHANGED <<now, exitCode, retryCount, previousStats, previousTime,
                   bandwidthHistory, timeseries_data, bandwidth_history,
                   displayOptions, settings, polls, ticks, keys, last, input>>

\* fetchStats: the stats request settles without a usable JSON body
StatsFailure(s, outcome) ==
    /\ phase \in {"initial", "polling"}
    /\ cycles[s].pc = "stats"
    /\ outcome # "json"
    /\ IF outcome \in {"html", "badjson"} /\ cycles[s].retryOnAuthFailure
       THEN \* reAuthenticate() up to the await in initSession()
            /\ cycles' = [cycles EXCEPT ![s].pc = "initSession",
                                        ![s].reauths = @ + 1]
            /\ UNCHANGED <<now, phase, exitCode, retryCount, nextTimer,
                           previousStats, previousTime, bandwidthHistory,
                           timeseries_data, bandwidth_history, displayOptions,
                           settings, polls, ticks, keys, last, input>>
       ELSE ReturnNull(s)

\* reAuthenticate: initSession() settles
ReauthInitSession(s, ok) ==
    /\ phase \in {"initial", "polling"}
    /\ cycles[s].pc = "initSession"
    /\ IF ok
       THEN /\ cycles' = [cycles EXCEPT ![s].pc = "login"]
            /\ UNCHANGED <<now, phase, exitCode, retryCount, nextTimer,
                           previousStats, previousTime, bandwidthHistory,
                           timeseries_data, bandwidth_history, displayOptions,
                           settings, polls, ticks, keys, last, input>>
       ELSE ReturnNull(s)

\* ReauthLogin retrying the stats request whatever login() returned
ReauthLoginAlwaysRetry(s, ok) ==
    /\ phase \in {"initial", "polling"}
    /\ cycles[s].pc = "login"
    /\ cycles' = [cycles EXCEPT ![s].pc = "stats",
                                ![s].retryOnAuthFailure = FALSE,
                                ![s].reauthOk = ok,
                                ![s].requests = @ + 1]
    /\ UNCHANGED <<now, phase, exitCode, retryCount, nextTimer,
                   previousStats, previousTime, bandwidthHistory,
                   timeseries_data, bandwidth_history, displayOptions,
                   settings, polls, ticks, keys, last, input>>

\* reAuthenticate: login() settles; on success fetchStats(false) is called
ReauthLogin(s, ok) ==
    /\ phase \in {"initial", "polling"}
    /\ cycles[s].pc = "login"
    /\ IF ok
       THEN /\ cycles' = [cycles EXCEPT ![s].pc = "stats",
                                        ![s].retryOnAuthFailure = FALSE,
                                        ![s].reauthOk = TRUE,
                                        ![s].requests = @ + 1]
            /\ UNCHANGED <<now, phase, exitCode, retryCount, nextTimer,
                           previousStats, previousTime, bandwidthHistory,
                           timeseries_data, bandwidth_history, displayOptions,
                           settings, polls, ticks, keys, last, input>>
       ELSE ReturnNull(s)

\* fetchStats returns a snapshot: refresh() runs displayStats(stats) and then
\* previousStats = stats.  An exception of displayStats rejects the promise
\* of refresh(): main().catch exits on the initial refresh, otherwise the
\* rejection is unhandled (crash: whether the runtime ends the process).
Deliver(s, data, fail, last0, crash) ==
    /\ phase \in {"initial", "polling"}
    /\ cycles[s].pc = "stats"
    /\ LET r == displayStats(data, now, last0, fail)
           threw == r.outcome = "threw"
           dies == threw /\ (cycles[s].trigger = "initial" \/ crash)
       IN  /\ timeseries_data' = r.timeseries_data
           /\ bandwidth_history' = r.bandwidth_history
           /\ bandwidthHistory' = r.bandwidthHistory
           /\ last' = Observe(r.outcome, cycles[s], <<data>>, r,
                              Len(timeseries_data), fail, ~dies)
           /\ IF threw
              THEN UNCHANGED <<previousStats, previousTime>>
              ELSE previousStats' = <<data>> /\ previousTime' = <<now>>
           /\ IF dies
              THEN phase' = "exited" /\ exitCode' = 1 /\ UNCHANGED nextTimer
              ELSE IF cycles[s].trigger = "initial" 
              THEN phase' = "polling" /\ nextTimer' = <<now + POLL_INTERVAL>>
                   /\ UNCHANGED exitCode
              ELSE UNCHANGED <<phase, nextTimer, exitCode>>
    /\ cycles' = [cycles EXCEPT ![s] = IdleCycle]
    /\ UNCHANGED <<now, retryCount, displayOptions, settings, polls, ticks, keys, input>>

Next ==
    \/ MainStart
    \/ \E initOk, loginOk \in BOOLEAN : LoginAttempt(initOk, loginOk)
    \/ TimerTick
    \/ \E k \in PressedKeys : KeyToggle(k)
    \/ Quit
    \/ \E d \in TimeSteps : Tick(d)
    \/ \E s \in Slots, outcome \in HttpOutcomes : StatsFailure(s, outcome)
    \/ \E s \in Slots, ok \in BOOLEAN : ReauthInitSession(s, ok)
    \/ \E s \in Slots, ok \in BOOLEAN : ReauthLogin(s, ok)
    \/ \E s \in Slots, data \in PollSnapshots, fail \in StorageFailures,
          last0 \in (IF LastEntries(timeseries_data) = {} THEN {0}
                     ELSE LastEntries(timeseries_data)),
          crash \in BOOLEAN :
          Deliver(s, data, fail, last0, crash)

Spec == Init /\ [][Next]_vars

(***************************************************************************)
(* The fetch protocol on its own (FairFetch): the same actions over two    *)
(* snapshots, with the fairness that every awaited request settles         *)
(***************************************************************************)
FetchSnapshots ==
    {Cellular(1000, 200, 1000),
     [Cellular(1000, 200, 1000) EXCEPT !.router = FALSE]}

\* the steps that settle what the refresh() in slot s is awaiting
FetchProgress(s) ==
    \/ \E outcome \in HttpOutcomes : StatsFailure(s, outcome)
    \/ \E ok \in BOOLEAN : ReauthInitSession(s, ok)
    \/ \E ok \in BOOLEAN : ReauthLogin(s, ok)
    \/ \E data \in FetchSnapshots,
          last0 \in (IF LastEntries(timeseries_data) = {} THEN {0}
                     ELSE LastEntries(timeseries_data)),
          crash \in BOOLEAN :
          Deliver(s, data, "none", last0, crash)

NextFetch ==
    \/ MainStart
    \/ \E initOk, loginOk \in BOOLEAN : LoginAttempt(initOk, loginOk)
    \/ TimerTick
    \/ KeyToggle("showHistory")
    \/ Quit
    \/ Tick(POLL_INTERVAL)
    \/ \E s \in Slots : FetchProgress(s)

\* every request of httpRequest settles: it ends, fails or times out
FairFetch ==
    Init /\ [][NextFetch]_vars /\ \A s \in Slots : WF_vars(FetchProgress(s))

(***************************************************************************)
(* The polls that are answered (SpecSamples): every stats request returns  *)
(* a JSON body and the storage calls succeed, so each refresh() reaches    *)
(* displayStats                                                            *)
(***************************************************************************)
\* the well-formed snapshots and one that displayStats skips
SampleSnapshots ==
    GoodSnapshots \cup {[Cellular(1000, 200, 1000) EXCEPT !.wwan.present = FALSE]}

NextSamples ==
    \/ MainStart
    \/ LoginAttempt(TRUE, TRUE)
    \/ TimerTick
    \/ KeyToggle("showBandwidth")
    \/ \E d \in TimeSteps : Tick(d)
    \/ \E s \in Slots, data \in SampleSnapshots,
          last0 \in (IF LastEntries(timeseries_data) = {} THEN {0}
                     ELSE LastEntries(timeseries_data)) :
          Deliver(s, data, "none", last0, FALSE)

SpecSamples == Init /\ [][NextSamples]_vars

(***************************************************************************)
(* handleDataGap as a function of the table, the clock and the lifetime    *)
(* counter of the current snapshot (SpecGap)                               *)
(***************************************************************************)
DayMs == 24 * 60 * 60 * 1000

\* a record as a poll at time t wrote it
PolledRow(t, data) ==
    saveTimeseriesData(<< >>, t, Aggregate(data).totalUpload,
        Aggregate(data).totalDownload, data.wwan.sessDuration,
        TotalLifetimeBytes(data), data.wwan.rsrp, Breakdown(data))[1]

\* the lifetime counter of a snapshot: a number, text, or missing
WithLifetime(life) ==
    [Cellular(1500, 300, 0) EXCEPT !.wwan.dataTransferred = life]

\* tables handleDataGap may find: empty, one record, a record without a
\* lifetime value, a record followed by an interpolated one, two records
\* written in the same millisecond
GapStores ==
    {<< >>,
     <<PolledRow(0, Cellular(1000, 200, 1000))>>,
     <<PolledRow(0, WithLifetime(Text))>>,
     <<PolledRow(0, Cellular(1000, 200, 1000)), InterpolatedRow(5000, 1200)>>,
     <<PolledRow(0, Cellular(1000, 200, 1000)), PolledRow(0, WithLifetime(Text))>>,
     <<PolledRow(0, Cellular(1000, 200, 1000)), PolledRow(0, Cellular(1000, 200, 1500))>>}

\* Date.now() of the current poll: up to MaxGap poll intervals after the
\* first record, on and off the interval grid, and around 24 hours
GapTimes ==
    {k * POLL_INTERVAL + o : k \in 0..MaxGap, o \in {0, 1, 4999}}
        \cup {DayMs - 1, DayMs, DayMs + POLL_INTERVAL}

GapLifetimes == {Absent, Text, Num(500), Num(1000), Num(1001), Num(1500), Num(2000)}

InitGap ==
    /\ timeseries_data \in GapStores
    /\ now \in GapTimes
    /\ input \in {WithLifetime(life) : life \in GapLifetimes}
    /\ phase = "boot"
    /\ exitCode = -1
    /\ retryCount = 0
    /\ nextTimer = << >>
    /\ cycles = [s \in Slots |-> IdleCycle]
    /\ previousStats = << >>
    /\ previousTime = << >>
    /\ bandwidthHistory = [download |-> << >>, upload |-> << >>]
    /\ bandwidth_history = << >>
    /\ displayOptions = DefaultDisplayOptions
    /\ settings = << >>
    /\ polls = 0
    /\ ticks = 0
    /\ keys = 0
    /\ last = NoLast

\* handleDataGap(timestamp, totalLifetimeBytes) as displayStats calls it
DetectGap(last0) ==
    /\ last.kind = "none"
    /\ LET lifetimeBytes == TotalLifetimeBytes(input)
           rows == handleDataGap(timeseries_data, last0, now, lifetimeBytes)
       IN  /\ timeseries_data' = rows
           /\ last' = [NoLast EXCEPT
                  !.kind = "gap",
                  !.data = <<input>>,
                  !.timestamp = now,
                  !.inserted = Len(rows) - Len(timeseries_data),
                  !.lastEntry = IF last0 = 0 THEN << >>
                                ELSE <<timeseries_data[last0]>>,
                  !.returned = handleDataGapReturns(timeseries_data, last0, now,
                                                    lifetimeBytes)]
    /\ UNCHANGED <<now, phase, exitCode, retryCount, nextTimer, cycles,
                   previousStats, previousTime, bandwidthHistory,
                   bandwidth_history, displayOptions, settings, polls, ticks,
                   keys, input>>

\* displayStats calls handleDataGap once per poll
NextGap ==
    /\ last.kind = "none"
    /\ \E last0 \in (IF LastEntries(timeseries_data) = {} THEN {0}
                     ELSE LastEntries(timeseries_data)) : DetectGap(last0)

SpecGap == InitGap /\ [][NextGap]_vars

(***************************************************************************)
(* calculateUsageOverTime as a function of the table and the clock         *)
(* (SpecUsage)                                                             *)
(***************************************************************************)
\* Date.now() of the call
UsageNow == 2 * DayMs

\* timestamps of stored records: now, and on and just before the cutoffs of
\* some of the windows
UsageTimes ==
    {UsageNow, UsageNow - Periods["5m"], UsageNow - Periods["5m"] - 1,
     UsageNow - Periods["15m"], UsageNow - Periods["1h"] - 1,
     UsageNow - Periods["6h"], UsageNow - Periods["12h"],
     UsageNow - Periods["24h"], UsageNow - Periods["24h"] - 1}

UsageRows ==
    {PolledRow(t, Cellular(c[1], c[2], 1000)) :
        t \in UsageTimes, c \in {<<0, 0>>, <<60, 40>>, <<500, 200>>}}

RECURSIVE SeqsUpTo(_, _)
SeqsUpTo(S, n) ==
    IF n = 0 THEN {<< >>}
    ELSE LET shorter == SeqsUpTo(S, n - 1)
         IN  shorter \cup {Append(q, x) : q \in shorter, x \in S}

InitUsage ==
    /\ timeseries_data \in SeqsUpTo(UsageRows, MaxRows)
    /\ now = UsageNow
    /\ input = Cellular(0, 0, 0)
    /\ phase = "boot"
    /\ exitCode = -1
    /\ retryCount = 0
    /\ nextTimer = << >>
    /\ cycles = [s \in Slots |-> IdleCycle]
    /\ previousStats = << >>
    /\ previousTime = << >>
    /\ bandwidthHistory = [download |-> << >>, upload |-> << >>]
    /\ bandwidth_history = << >>
    /\ displayOptions = DefaultDisplayOptions
    /\ settings = << >>
    /\ polls = 0
    /\ ticks = 0
    /\ keys = 0
    /\ last = NoLast

\* const usage = calculateUsageOverTime() of displayStats
ComputeUsage ==
    /\ last.kind = "none"
    /\ last' = [NoLast EXCEPT
           !.kind = "usage",
           !.timestamp = now,
           !.usage = <<calculateUsageOverTime(timeseries_data, now)>>]
    /\ UNCHANGED <<now, phase, exitCode, retryCount, nextTimer, cycles,
                   previousStats, previousTime, bandwidthHistory,
                   timeseries_data, bandwidth_history, displayOptions, settings,
                   polls, ticks, keys, input>>

NextUsage == ComputeUsage

SpecUsage == InitUsage /\ [][NextUsage]_vars

(***************************************************************************)
(* A start over the tables of earlier runs (SpecHistory): seeding of the   *)
(* in-memory history, then polls                                           *)
(***************************************************************************)
\* the records and speeds an earlier run of n polls left behind, one poll
\* interval apart, the last one a poll interval before this start
StoredRecords(n) ==
    [i \in 1..n |->
        PolledRow((i - n - 1) * POLL_INTERVAL,
                  Cellular(1000 + 50 * i * (i + 1), 200 + 5 * i * (i + 1), 1000))]

StoredSpeeds(k) ==
    [i \in 1..k |->
        [timestamp |-> (i - k - 1) * POLL_INTERVAL,
         download_speed |-> [num |-> 100 * i * 1000, den |-> POLL_INTERVAL],
         upload_speed |-> [num |-> 10 * i * 1000, den |-> POLL_INTERVAL]]]

\* sizes of the two tables at the start: <<timeseries_data, bandwidth_history>>
StoredSizes ==
    {<<0, 0>>, <<0, 3>>, <<0, maxSamples + 4>>, <<1, 2>>, <<2, 0>>,
     <<maxSamples, 0>>, <<maxSamples + 1, 0>>, <<maxSamples + 4, 3>>}

HistorySnapshots == {Cellular(1000, 200, 1000), Cellular(1500, 300, 2000)}

InitHistory ==
    /\ \E z \in StoredSizes :
          /\ timeseries_data = StoredRecords(z[1])
          /\ bandwidth_history = StoredSpeeds(z[2])
    /\ now = 0
    /\ phase = "boot"
    /\ exitCode = -1
    /\ retryCount = 0
    /\ nextTimer = << >>
    /\ cycles = [s \in Slots |-> IdleCycle]
    /\ previousStats = << >>
    /\ previousTime = << >>
    /\ bandwidthHistory = [download |-> << >>, upload |-> << >>]
    /\ displayOptions = DefaultDisplayOptions
    /\ settings = << >>
    /\ polls = 0
    /\ ticks = 0
    /\ keys = 0
    /\ last = NoLast
    /\ input = Cellular(0, 0, 0)

NextHistory ==
    \/ MainStart
    \/ LoginAttempt(TRUE, TRUE)
    \/ TimerTick
    \/ KeyToggle("showHistory")
    \/ Tick(POLL_INTERVAL)
    \/ \E s \in Slots, data \in HistorySnapshots,
          last0 \in (IF LastEntries(timeseries_data) = {} THEN {0}
                     ELSE LastEntries(timeseries_data)) :
          Deliver(s, data, "none", last0, FALSE)

SpecHistory == InitHistory /\ [][NextHistory]_vars

(***************************************************************************)
(* The five toggle keys during a run that started over the records of an   *)
(* earlier run (SpecKeys)                                                  *)
(***************************************************************************)
\* snapshots with and without an active offload
KeySnapshots ==
    {Cellular(1000, 200, 1000)}
        \cup {[Cellular(1000, 200, 1000) EXCEPT !.wifi = ActiveWifi(30, 10)],
               [Cellular(1000, 200, 1000) EXCEPT
                    !.ethernet = ActiveEthernet(30, 10)],
               [Cellular(1000, 200, 1000) EXCEPT
                    !.ethernet = Ethernet(TRUE, TRUE, Num(30), Num(10),
                                          TRUE, TRUE, "0.0.0.0")],
               [Cellular(1000, 200, 1000) EXCEPT
                    !.wifi = Wifi(TRUE, TRUE, TRUE, Num(30), Num(10),
                                  TRUE, FALSE, TRUE)]}

InitKeys ==
    /\ timeseries_data = StoredRecords(3)
    /\ bandwidth_history = StoredSpeeds(2)
    /\ now = 0
    /\ phase = "boot"
    /\ exitCode = -1
    /\ retryCount = 0
    /\ nextTimer = << >>
    /\ cycles = [s \in Slots |-> IdleCycle]
    /\ previousStats = << >>
    /\ previousTime = << >>
    /\ bandwidthHistory = [download |-> << >>, upload |-> << >>]
    /\ displayOptions = DefaultDisplayOptions
    /\ settings \in {<< >>, <<[DefaultDisplayOptions EXCEPT !.showNetwork = FALSE]>>}
    /\ polls = 0
    /\ ticks = 0
    /\ keys = 0
    /\ last = NoLast
    /\ input = Cellular(0, 0, 0)

NextKeys ==
    \/ MainStart
    \/ LoginAttempt(TRUE, TRUE)
    \/ TimerTick
    \/ \E k \in ToggleKeys : KeyToggle(k)
    \/ Quit
    \/ Tick(POLL_INTERVAL)
    \/ \E s \in Slots, data \in HistorySnapshots,
          last0 \in (IF LastEntries(timeseries_data) = {} THEN {0}
                     ELSE LastEntries(timeseries_data)) :
          Deliver(s, data, "none", last0, FALSE)

SpecKeys == InitKeys /\ [][NextKeys]_vars

\* the same run with the two panel keys, over snapshots with and without an
\* active offload (SpecWarn)
NextWarn ==
    \/ MainStart
    \/ LoginAttempt(TRUE, TRUE)
    \/ TimerTick
    \/ \E k \in {"showNetwork", "showBandwidth"} : KeyToggle(k)
    \/ Tick(POLL_INTERVAL)
    \/ \E s \in Slots, data \in KeySnapshots,
          last0 \in (IF LastEntries(timeseries_data) = {} THEN {0}
                     ELSE LastEntries(timeseries_data)) :
          Deliver(s, data, "none", last0, FALSE)

SpecWarn == InitKeys /\ [][NextWarn]_vars

(***************************************************************************)
(* Polls over snapshots that lack optional sub-objects (SpecOptional)      *)
(***************************************************************************)
OptionalSnapshots ==
    {Cellular(1000, 200, 1000),
     [Cellular(1000, 200, 1000) EXCEPT
          !.wifi = Wifi(TRUE, FALSE, FALSE, Absent, Absent, FALSE, FALSE, FALSE),
          !.ethernet = Ethernet(TRUE, FALSE, Absent, Absent, FALSE, FALSE, "")],
     [Cellular(1000, 200, 1000) EXCEPT
          !.wifi = Wifi(TRUE, TRUE, FALSE, Absent, Absent, TRUE, TRUE, TRUE),
          !.ethernet = ActiveEthernet(7, 3)],
     [Cellular(1000, 200, 1000) EXCEPT
          !.wifi = Wifi(TRUE, TRUE, FALSE, Absent, Absent, TRUE, FALSE, TRUE)],
     [Cellular(1000, 200, 1000) EXCEPT
          !.wifi = ActiveWifi(30, 10),
          !.ethernet = Ethernet(TRUE, FALSE, Absent, Absent, FALSE, FALSE, "")],
     [Cellular(1500, 300, 2000) EXCEPT
          !.wifi = ActiveWifi(30, 10), !.ethernet = ActiveEthernet(7, 3)]}

NextOptional ==
    \/ MainStart
    \/ LoginAttempt(TRUE, TRUE)
    \/ TimerTick
    \/ KeyToggle("showNetwork")
    \/ Tick(POLL_INTERVAL)
    \/ \E s \in Slots, data \in OptionalSnapshots,
          last0 \in (IF LastEntries(timeseries_data) = {} THEN {0}
                     ELSE LastEntries(timeseries_data)) :
          Deliver(s, data, "none", last0, FALSE)

SpecOptional == Init /\ [][NextOptional]_vars

(***************************************************************************)
(* Startup with failing and succeeding login attempts (SpecLogin)          *)
(***************************************************************************)
NextLogin ==
    \/ MainStart
    \/ \E initOk, loginOk \in BOOLEAN : LoginAttempt(initOk, loginOk)
    \/ TimerTick
    \/ Quit
    \/ \E d \in TimeSteps : Tick(d)
    \/ \E s \in Slots, data \in GoodSnapshots,
          last0 \in (IF LastEntries(timeseries_data) = {} THEN {0}
                     ELSE LastEntries(timeseries_data)) :
          Deliver(s, data, "none", last0, FALSE)

SpecLogin == Init /\ [][NextLogin]_vars

(***************************************************************************)
(* Startup over stores with records around the retention cutoff            *)
(* (SpecClean); input holds the two tables as the run found them           *)
(***************************************************************************)
\* timestamps of stored records, relative to the start of the run at 0
CleanTimes ==
    {-8 * DayMs, -7 * DayMs - 1, -7 * DayMs, -7 * DayMs + 1, -POLL_INTERVAL}

\* the times T in the order in which their records were written
WrittenOrder(T) ==
    LET Position(t) == 1 + Cardinality({u \in T : u < t})
    IN  [p \in 1..Cardinality(T) |-> CHOOSE t \in T : Position(t) = p]

CleanRecord(t) == PolledRow(t, Cellular(1000, 200, 1000))
CleanSpeed(t) ==
    [timestamp |-> t, download_speed |-> [num |-> 100000, den |-> POLL_INTERVAL],
     upload_speed |-> [num |-> 10000, den |-> POLL_INTERVAL]]

InitClean ==
    /\ \E T1, T2 \in SUBSET CleanTimes :
          /\ timeseries_data =
                 [p \in 1..Cardinality(T1) |-> CleanRecord(WrittenOrder(T1)[p])]
          /\ bandwidth_history =
                 [p \in 1..Cardinality(T2) |-> CleanSpeed(WrittenOrder(T2)[p])]
    /\ input = [timeseries_data |-> timeseries_data,
                bandwidth_history |-> bandwidth_history]
    /\ now = 0
    /\ phase = "boot"
    /\ exitCode = -1
    /\ retryCount = 0
    /\ nextTimer = << >>
    /\ cycles = [s \in Slots |-> IdleCycle]
    /\ previousStats = << >>
    /\ previousTime = << >>
    /\ bandwidthHistory = [download |-> << >>, upload |-> << >>]
    /\ displayOptions = DefaultDisplayOptions
    /\ settings = << >>
    /\ polls = 0
    /\ ticks = 0
    /\ keys = 0
    /\ last = NoLast

NextClean ==
    \/ MainStart
    \/ LoginAttempt(TRUE, TRUE)
    \/ \E s \in Slots,
          last0 \in (IF LastEntries(timeseries_data) = {} THEN {0}
                     ELSE LastEntries(timeseries_data)) :
          Deliver(s, Cellular(1500, 300, 2000), "none", last0, FALSE)

SpecClean == InitClean /\ [][NextClean]_vars

(***************************************************************************)
(* A run that starts 20 seconds after the last record of an earlier run,   *)
(* over snapshots with and without a readable lifetime counter (SpecOrder) *)
(***************************************************************************)
OrderSnapshots == {Cellular(1500, 300, 2000), WithLifetime(Text)}

InitOrder ==
    /\ timeseries_data =
           <<PolledRow(-4 * POLL_INTERVAL, Cellular(1000, 200, 1000))>>
    /\ bandwidth_history = << >>
    /\ now = 0
    /\ phase = "boot"
    /\ exitCode = -1
    /\ retryCount = 0
    /\ nextTimer = << >>
    /\ cycles = [s \in Slots |-> IdleCycle]
    /\ previousStats = << >>
    /\ previousTime = << >>
    /\ bandwidthHistory = [download |-> << >>, upload |-> << >>]
    /\ displayOptions = DefaultDisplayOptions
    /\ settings = << >>
    /\ polls = 0
    /\ ticks = 0
    /\ keys = 0
    /\ last = NoLast
    /\ input = Cellular(0, 0, 0)

NextOrder ==
    \/ MainStart
    \/ LoginAttempt(TRUE, TRUE)
    \/ TimerTick
    \/ \E k \in PressedKeys : KeyToggle(k)
    \/ \E d \in TimeSteps : Tick(d)
    \/ \E s \in Slots, data \in OrderSnapshots,
          last0 \in (IF LastEntries(timeseries_data) = {} THEN {0}
                     ELSE LastEntries(timeseries_data)) :
          Deliver(s, data, "none", last0, FALSE)

SpecOrder == InitOrder /\ [][NextOrder]_vars

(***************************************************************************)
(* Startup over stores with counter resets, records of equal timestamp and *)
(* interpolated records (SpecSeed); input holds the tables as found        *)
(***************************************************************************)
SeedRecord(t, rx, tx) == PolledRow(t, Cellular(rx, tx, 1000))

SeedStores ==
    {<< >>,
     <<SeedRecord(-5000, 1000, 200)>>,
     StoredRecords(3),
     <<SeedRecord(-20000, 1000, 200), SeedRecord(-15000, 500, 300),
       SeedRecord(-10000, 600, 250), SeedRecord(-5000, 900, 400)>>,
     <<SeedRecord(-10000, 1000, 200), SeedRecord(-5000, 500, 100)>>,
     <<SeedRecord(-10000, 1000, 200), SeedRecord(-5000, 1500, 300),
       SeedRecord(-5000, 1600, 300)>>,
     <<SeedRecord(-20000, 1000, 200), InterpolatedRow(-15000, 1250),
       InterpolatedRow(-10000, 1500), SeedRecord(-5000, 1500, 300)>>,
     StoredRecords(maxSamples + 4)}

SeedLegacySizes == {0, 3, maxSamples + 4}

InitSeed ==
    /\ timeseries_data \in SeedStores
    /\ \E k \in SeedLegacySizes : bandwidth_history = StoredSpeeds(k)
    /\ input = [timeseries_data |-> timeseries_data,
                bandwidth_history |-> bandwidth_history]
    /\ now = 0
    /\ phase = "boot"
    /\ exitCode = -1
    /\ retryCount = 0
    /\ nextTimer = << >>
    /\ cycles = [s \in Slots |-> IdleCycle]
    /\ previousStats = << >>
    /\ previousTime = << >>
    /\ bandwidthHistory = [download |-> << >>, upload |-> << >>]
    /\ displayOptions = DefaultDisplayOptions
    /\ settings = << >>
    /\ polls = 0
    /\ ticks = 0
    /\ keys = 0
    /\ last = NoLast

NextSeed ==
    \/ MainStart
    \/ LoginAttempt(TRUE, TRUE)
    \/ \E s \in Slots, data \in HistorySnapshots,
          last0 \in (IF LastEntries(timeseries_data) = {} THEN {0}
                     ELSE LastEntries(timeseries_data)) :
          Deliver(s, data, "none", last0, FALSE)

SpecSeed == InitSeed /\ [][NextSeed]_vars

(***************************************************************************)
(* Aggregation as a function of the raw snapshot (SpecAgg)                 *)
(***************************************************************************)
RawSnapshots ==
    {Snapshot(Wwan(TRUE, rx, tx, TRUE, TRUE, Num(1000), Num(0)), TRUE, TRUE, TRUE,
              Wifi(w[1], w[2], w[3], wtx, wrx, wa, wa, wa),
              Ethernet(e[1], e[2], etx, erx, ea, ea,
                       IF ea THEN "addr" ELSE "0.0.0.0")) :
        rx \in {Absent, Text, Num(0), Num(100), Num(-7)},
        tx \in {Absent, Text, Num(50)},
        w \in {<<FALSE, FALSE, FALSE>>, <<TRUE, FALSE, FALSE>>,
               <<TRUE, TRUE, FALSE>>, <<TRUE, TRUE, TRUE>>},
        wtx \in {Absent, Text, Num(30)},
        wrx \in {Text, Num(10)},
        wa \in BOOLEAN,
        e \in {<<FALSE, FALSE>>, <<TRUE, FALSE>>, <<TRUE, TRUE>>},
        etx \in {Absent, Num(7)},
        erx \in {Text, Num(3)},
        ea \in BOOLEAN}

InitAgg ==
    /\ input \in RawSnapshots
    /\ now = 0
    /\ phase = "boot"
    /\ exitCode = -1
    /\ retryCount = 0
    /\ nextTimer = << >>
    /\ cycles = [s \in Slots |-> IdleCycle]
    /\ previousStats = << >>
    /\ previousTime = << >>
    /\ bandwidthHistory = [download |-> << >>, upload |-> << >>]
    /\ timeseries_data = << >>
    /\ bandwidth_history = << >>
    /\ displayOptions = DefaultDisplayOptions
    /\ settings = << >>
    /\ polls = 0
    /\ ticks = 0
    /\ keys = 0
    /\ last = NoLast

\* the aggregation statements of displayStats applied to input
Normalize ==
    /\ last.kind = "none"
    /\ last' = [NoLast EXCEPT !.kind = "agg", !.data = <<input>>,
                              !.aggregate = <<Aggregate(input)>>]
    /\ UNCHANGED <<now, phase, exitCode, retryCount, nextTimer, cycles,
                   previousStats, previousTime, bandwidthHistory,
                   timeseries_data, bandwidth_history, displayOptions, settings,
                   polls, ticks, keys, input>>

NextAgg == Normalize

SpecAgg == InitAgg /\ [][NextAgg]_vars

(***************************************************************************)
(* Properties                                                              *)
(***************************************************************************)
\* the number a counter field reports; 0 when it is missing or unreadable
ValueOf(x) == IF x.kind = "num" THEN x.n ELSE 0

WifiReported(data) ==
    data.wifi.present /\ data.wifi.offload /\ data.wifi.dataTransferred
EthernetReported(data) == data.ethernet.present /\ data.ethernet.offload

ExpectedDownload(data) ==
    ValueOf(data.wwan.dataTransferredRx)
        + (IF WifiReported(data) THEN ValueOf(data.wifi.tx) ELSE 0)
        + (IF EthernetReported(data) THEN ValueOf(data.ethernet.tx) ELSE 0)

ExpectedUpload(data) ==
    ValueOf(data.wwan.dataTransferredTx)
        + (IF WifiReported(data) THEN ValueOf(data.wifi.rx) ELSE 0)
        + (IF EthernetReported(data) THEN ValueOf(data.ethernet.rx) ELSE 0)

WellFormed(data) ==
    /\ data.wwan.present /\ data.general /\ data.power /\ data.router
    /\ data.wwan.generic /\ data.wwan.signalStrength

\* C1: the aggregate of a snapshot is download = cellular rx + wifi tx +
\* ethernet tx and upload = cellular tx + wifi rx + ethernet rx, over every
\* reported source, active or not; cellular 100/50 with wifi tx 30, rx 10
\* gives 130/60.
C1_AggregateConvention ==
    last.kind = "agg" =>
        LET data == last.data[1]
            agg == last.aggregate[1]
        IN  /\ agg.totalDownload = ExpectedDownload(data)
            /\ agg.totalUpload = ExpectedUpload(data)
            /\ (/\ data.wwan.dataTransferredRx = Num(100)
                /\ data.wwan.dataTransferredTx = Num(50)
                /\ WifiReported(data)
                /\ data.wifi.tx = Num(30) /\ data.wifi.rx = Num(10)
                /\ ~EthernetReported(data))
               => agg.totalDownload = 130 /\ agg.totalUpload = 60

\* C1 witness: both offloads are reported at once, neither active, and all
\* three sources are counted
C1_Witness ==
    /\ last.kind = "agg"
    /\ WifiReported(last.data[1]) /\ EthernetReported(last.data[1])
    /\ ~wifiOffloadActiveOf(last.data[1])
    /\ ~ethernetOffloadActiveOf(last.data[1])
    /\ last.aggregate[1] = [totalDownload |-> 137, totalUpload |-> 63]

\* the rows a real poll appended (interpolated rows have no breakdown)
RealRows == {i \in DOMAIN timeseries_data :
                timeseries_data[i].cellular_download # << >>}

\* C2: every record a real poll appends stores total_rx_bytes = aggregate
\* download = sum of the three download columns, and total_tx_bytes =
\* aggregate upload = sum of the three upload columns.
C2_RecordStandardConvention ==
    \A i \in RealRows :
        LET r == timeseries_data[i]
        IN  /\ r.total_rx_bytes = r.cellular_download[1]
                   + r.wifi_offload_download[1] + r.ethernet_offload_download[1]
            /\ r.total_tx_bytes = r.cellular_upload[1]
                   + r.wifi_offload_upload[1] + r.ethernet_offload_upload[1]

\* the byte deltas of the poll observed in last, against previousStats
PrevAggregate == Aggregate(last.prev[1])
DownloadDelta == last.aggregate[1].totalDownload - PrevAggregate.totalDownload
UploadDelta == last.aggregate[1].totalUpload - PrevAggregate.totalUpload
Elapsed == last.timestamp - last.prevTime[1]

\* C3: the live speed of a poll is the aggregate byte delta divided by the
\* time elapsed between the previous and the current snapshot, also for a
\* keypress refresh or a late poll, and (0, 0) when no time elapsed.  (Stated
\* for non-negative deltas over a non-zero previous aggregate, where neither
\* the clamp nor the zero guard of calculateBandwidth applies.)
C3_SpeedOverElapsedTime ==
    (/\ last.sample # << >>
     /\ DownloadDelta >= 0 /\ UploadDelta >= 0
     /\ PrevAggregate.totalDownload # 0 /\ PrevAggregate.totalUpload # 0)
    => IF Elapsed <= 0
       THEN RatEq(last.sample[1].download, Zero) /\ RatEq(last.sample[1].upload, Zero)
       ELSE /\ RatEq(last.sample[1].download,
                     [num |-> DownloadDelta * 1000, den |-> Elapsed])
            /\ RatEq(last.sample[1].upload,
                     [num |-> UploadDelta * 1000, den |-> Elapsed])

\* C4: two consecutive successful polls one poll interval apart with
\* non-decreasing aggregates give (current - previous) / 5 bytes per second in
\* each direction, whatever the previous aggregate.
C4_SpeedOverOneInterval ==
    (/\ last.kind = "ok"
     /\ last.prev # << >>
     /\ WellFormed(last.prev[1])
     /\ Elapsed = POLL_INTERVAL
     /\ DownloadDelta >= 0 /\ UploadDelta >= 0)
    => /\ last.sample # << >>
       /\ RatEq(last.sample[1].download, [num |-> DownloadDelta, den |-> 5])
       /\ RatEq(last.sample[1].upload, [num |-> UploadDelta, den |-> 5])

LastOf(q) == q[Len(q)]

\* C5: when the aggregate of either direction decreased since the previous
\* poll, both speeds of the interval are 0 and no positive value is written
\* to bandwidth_history or pushed onto bandwidthHistory.
C5_ResetDiscardsSample ==
    (/\ last.sample # << >>
     /\ (DownloadDelta < 0 \/ UploadDelta < 0))
    => /\ last.sample[1].download.num = 0
       /\ last.sample[1].upload.num = 0
       /\ ~RatPos(LastOf(bandwidthHistory.download))
       /\ ~RatPos(LastOf(bandwidthHistory.upload))
       /\ ~RatPos(LastOf(bandwidth_history).download_speed)
       /\ ~RatPos(LastOf(bandwidth_history).upload_speed)

\* C6: every speed pushed onto bandwidthHistory or written to
\* bandwidth_history is >= 0, and the download speed of a poll whose
\* aggregate download is lower than the previous one is 0.
C6_SpeedsNonNegative ==
    /\ \A i \in DOMAIN bandwidthHistory.download :
           RatGeq0(bandwidthHistory.download[i])
    /\ \A i \in DOMAIN bandwidthHistory.upload :
           RatGeq0(bandwidthHistory.upload[i])
    /\ \A i \in DOMAIN bandwidth_history :
           /\ RatGeq0(bandwidth_history[i].download_speed)
           /\ RatGeq0(bandwidth_history[i].upload_speed)
    /\ (last.sample # << >> /\ DownloadDelta < 0)
           => last.sample[1].download.num = 0

\* C6 witness: a poll after a counter reset pushed its sample
C6_Witness ==
    /\ last.kind = "ok"
    /\ last.sample # << >>
    /\ DownloadDelta < 0 /\ UploadDelta < 0
    /\ Len(bandwidthHistory.download) > 0
    /\ Len(bandwidth_history) > 0
    /\ LastOf(bandwidth_history).download_speed = last.sample[1].download

\* C7: at most one fetch-normalize-store cycle is in flight at any time.
C7_OneCycleInFlight == Cardinality(InFlight) <= 1

\* C8: a malformed snapshot (wwan, general, power or wwan.dataUsage.generic
\* missing) is skipped with no state mutation: no record, no sample, history
\* and previousStats unchanged.
C8_MalformedSkippedWithoutMutation ==
    [][(last' # last /\ last'.kind = "skipped")
        => UNCHANGED <<previousStats, timeseries_data, bandwidth_history,
                       bandwidthHistory>>]_vars

\* C9: when appending the time-series record fails, the poll is not fatal
\* and its metrics are still delivered: the speed is computed, previousStats
\* becomes the current snapshot, the process lives on.
C9_StorageFailureNotFatal ==
    (/\ last.fail = "timeseries"
     /\ last.data # << >>
     /\ WellFormed(last.data[1]))
    => /\ last.alive
       /\ previousStats = last.data
       /\ last.prev # << >> => last.sample # << >>

\* steps a fetchStats call may still take
Rank(c) ==
    CASE c.pc = "idle" -> 0
      [] c.pc = "stats" /\ ~c.retryOnAuthFailure -> 1
      [] c.pc = "login" -> 2
      [] c.pc = "initSession" -> 3
      [] OTHER -> 4

FetchBounds ==
    \A s \in Slots :
        /\ cycles[s].requests <= 2
        /\ cycles[s].reauths <= 1
        /\ cycles[s].requests = 2 => cycles[s].reauths = 1 /\ cycles[s].reauthOk

\* C10: every fetchStats call terminates (with a snapshot or null), invokes
\* reAuthenticate at most once and issues the stats request at most twice,
\* the second time only after a successful re-authentication.
C10_FetchTerminatesBounded ==
    /\ []FetchBounds
    /\ [][\A s \in Slots :
             (cycles[s].pc # "idle" /\ cycles'[s] # cycles[s])
                 => Rank(cycles'[s]) < Rank(cycles[s])]_vars
    /\ \A s \in Slots :
           (cycles[s].pc # "idle") ~> (cycles[s].pc = "idle" \/ phase = "exited")

\* C10 witness: a second stats request is awaited after a re-authentication
C10_Witness ==
    \E s \in Slots :
        /\ cycles[s].pc = "stats"
        /\ cycles[s].requests = 2
        /\ cycles[s].reauths = 1

\* a refresh() ends in this step without having reached displayStats:
\* its fetchStats returned null (a step of Deliver records itself in last)
FetchFailed(s) ==
    /\ cycles[s].pc # "idle"
    /\ cycles'[s].pc = "idle"
    /\ last' = last

\* C11: a poll whose fetch fails (fetchStats returns null) changes nothing:
\* previousStats, the in-memory history and both tables are unchanged, the
\* process does not terminate, and the interval timer is (or, for the
\* initial refresh, becomes) armed for the next tick.
C11_FailedFetchChangesNothing ==
    [][\A s \in Slots :
          FetchFailed(s) =>
              /\ UNCHANGED <<previousStats, bandwidthHistory, timeseries_data,
                             bandwidth_history>>
              /\ phase' \in {"initial", "polling"}
              /\ exitCode' = -1
              /\ phase' = "polling" =>
                     /\ nextTimer' # << >>
                     /\ nextTimer'[1] <= now' + POLL_INTERVAL]_vars

\* C11 witness: the initial fetch returned null, nothing was written, and
\* the next interval tick has started a new poll
C11_Witness ==
    /\ phase = "polling"
    /\ last.kind = "login"
    /\ previousStats = << >>
    /\ timeseries_data = << >>
    /\ \E s \in Slots : cycles[s].pc = "stats" /\ cycles[s].trigger = "timer"

\* the observation of a handleDataGap call
GapLast == last.lastEntry[1]
GapCurrentLifetime == TotalLifetimeBytes(last.data[1])
GapDuration == last.timestamp - GapLast.timestamp

\* the condition under which the gap is interpolated
GapCondition ==
    /\ last.lastEntry # << >>
    /\ GapDuration > 3 * POLL_INTERVAL
    /\ ~GapCurrentLifetime.nan
    /\ GapCurrentLifetime.n > GapLast.lifetime_bytes[1]
    /\ GapDuration \div POLL_INTERVAL < DayMs \div POLL_INTERVAL

\* C12: handleDataGap inserts synthetic records exactly when a previous
\* record with a lifetime value exists, the current poll is more than three
\* poll intervals after it, the lifetime counter grew, and the gap holds
\* fewer poll intervals than 24 hours do; otherwise it inserts nothing and
\* returns false.
C12_GapInsertsExactlyWhen ==
    last.kind = "gap" =>
        /\ (last.inserted > 0) <=> GapCondition
        /\ last.returned <=> GapCondition
        /\ last.lastEntry # << >> => GapLast.lifetime_bytes # << >>

\* C12 witness: a gap of four poll intervals with a grown lifetime counter
\* was interpolated
C12_Witness ==
    /\ last.kind = "gap"
    /\ GapCondition
    /\ GapDuration = 4 * POLL_INTERVAL
    /\ last.inserted = 3
    /\ last.returned

\* the records a poll wrote (saveTimeseriesData), as against the synthetic
\* records of handleDataGap
IsPolled(r) == r.cellular_download # << >>

\* the aggregate counter of the polled records of a window
PolledBytes(rows, t, label) ==
    {rows[i].total_rx_bytes + rows[i].total_tx_bytes :
        i \in {j \in DOMAIN rows :
                  IsPolled(rows[j]) /\ rows[j].timestamp >= t - Periods[label]}}

\* C13: with synthetic records in the store, the usage reported for a window
\* never exceeds the largest minus the smallest aggregate counter of the
\* polled records of that window.
C13_SyntheticRecordsDoNotSkewUsage ==
    \A label \in DOMAIN Periods :
        LET usage == calculateUsageOverTime(timeseries_data, now)[label]
            polled == PolledBytes(timeseries_data, now, label)
        IN  (usage # << >> /\ polled # {})
                => usage[1] <= MaxOf(polled) - MinOf(polled)

\* the synthetic records of the observed handleDataGap call, in the order
\* of their insertion (which is the order of their timestamps)
Synthetic ==
    SubSeq(timeseries_data, Len(timeseries_data) - last.inserted + 1,
           Len(timeseries_data))

\* lifetime values from the last record through the synthetic records to
\* the current poll
GapLifetimeChain ==
    <<GapLast.lifetime_bytes[1]>>
        \o [i \in 1..last.inserted |-> Synthetic[i].lifetime_bytes[1]]
        \o <<GapCurrentLifetime.n>>

RECURSIVE SumOfDeltas(_, _)
SumOfDeltas(q, i) == IF i >= Len(q) THEN 0 ELSE (q[i + 1] - q[i]) + SumOfDeltas(q, i + 1)

\* the example: last record with lifetime 1000 at t = 0, current poll with
\* lifetime 2000 at t = 10 poll intervals
TenIntervalGap ==
    /\ last.kind = "gap"
    /\ last.lastEntry # << >>
    /\ GapLast.timestamp = 0
    /\ GapLast.lifetime_bytes = <<1000>>
    /\ last.timestamp = 10 * POLL_INTERVAL
    /\ GapCurrentLifetime = JNum(2000)

\* C14 as stated: in the example, 8 synthetic records are inserted, their
\* lifetime values increase monotonically and the consecutive deltas from
\* the last record to the new one sum to 1000.
C14_TenIntervalGapInsertsEight ==
    TenIntervalGap =>
        /\ last.inserted = 8
        /\ \A i \in 1..(Len(GapLifetimeChain) - 1) :
               GapLifetimeChain[i] < GapLifetimeChain[i + 1]
        /\ SumOfDeltas(GapLifetimeChain, 1) = 1000

\* C14 amended: in the example, 9 synthetic records are inserted (one per
\* missed poll interval), their lifetime values increase monotonically and
\* the consecutive deltas from the last record to the new one sum to 1000.
C14_TenIntervalGapInsertsNine ==
    TenIntervalGap =>
        /\ last.inserted = 9
        /\ \A i \in 1..(Len(GapLifetimeChain) - 1) :
               GapLifetimeChain[i] < GapLifetimeChain[i + 1]
        /\ SumOfDeltas(GapLifetimeChain, 1) = 1000

\* C14 witness: the example was interpolated, in steps of 100 bytes
C14_Witness ==
    /\ TenIntervalGap
    /\ last.returned
    /\ GapLifetimeChain =
           <<1000, 1100, 1200, 1300, 1400, 1500, 1600, 1700, 1800, 1900, 2000>>

\* the i-th synthetic record of the observed handleDataGap call
SyntheticAt(i) == timeseries_data[Len(timeseries_data) - last.inserted + i]

\* C15: an interpolated gap of numIntervals = floor(gap / poll interval)
\* gets exactly numIntervals - 1 synthetic records, the i-th at the last
\* record's timestamp + i poll intervals, strictly between the last record
\* and the current poll, with session counters 0 and signal values null.
C15_SyntheticRecordsEvenlySpaced ==
    (last.kind = "gap" /\ last.returned) =>
        /\ last.inserted = GapDuration \div POLL_INTERVAL - 1
        /\ \A i \in 1..last.inserted :
               /\ SyntheticAt(i).timestamp = GapLast.timestamp + i * POLL_INTERVAL
               /\ SyntheticAt(i).timestamp > GapLast.timestamp
               /\ SyntheticAt(i).timestamp < last.timestamp
               /\ SyntheticAt(i).total_rx_bytes = 0
               /\ SyntheticAt(i).total_tx_bytes = 0
               /\ SyntheticAt(i).session_duration = 0
               /\ SyntheticAt(i).signal_rsrp = << >>

\* C15 witness: a gap of four poll intervals and a millisecond got three
\* synthetic records, the last one 5001 ms before the current poll
C15_Witness ==
    /\ last.kind = "gap"
    /\ last.returned
    /\ GapDuration = 4 * POLL_INTERVAL + 1
    /\ last.inserted = 3
    /\ SyntheticAt(3).timestamp = last.timestamp - POLL_INTERVAL - 1

\* lifetime value of the record before the i-th synthetic record
LifetimeBefore(i) ==
    IF i = 1 THEN GapLast.lifetime_bytes[1]
    ELSE SyntheticAt(i - 1).lifetime_bytes[1]

\* C16: across an interpolated gap the lifetime values never decrease from
\* the last record through the synthetic records to the current poll, and
\* each synthetic value lies between the last record's and the current one.
C16_LifetimeConservedAcrossGap ==
    (last.kind = "gap" /\ last.returned) =>
        /\ \A i \in 1..last.inserted :
               /\ SyntheticAt(i).lifetime_bytes # << >>
               /\ LifetimeBefore(i) <= SyntheticAt(i).lifetime_bytes[1]
               /\ GapLast.lifetime_bytes[1] <= SyntheticAt(i).lifetime_bytes[1]
               /\ SyntheticAt(i).lifetime_bytes[1] <= GapCurrentLifetime.n
        /\ LifetimeBefore(last.inserted + 1) <= GapCurrentLifetime.n

\* C16 witness: a lifetime delta of one byte over four intervals, every
\* synthetic record rounded down to the last record's value
C16_Witness ==
    /\ last.kind = "gap"
    /\ last.returned
    /\ last.inserted = 3
    /\ GapLast.lifetime_bytes = <<1000>>
    /\ GapCurrentLifetime.n = 1001
    /\ SyntheticAt(3).lifetime_bytes = <<1000>>

\* the usage windows, in minutes
WindowMinutes ==
    [label \in {"5m", "15m", "30m", "45m", "1h", "6h", "12h", "24h"} |->
        CASE label = "5m" -> 5 [] label = "15m" -> 15 [] label = "30m" -> 30
          [] label = "45m" -> 45 [] label = "1h" -> 60 [] label = "6h" -> 360
          [] label = "12h" -> 720 [] label = "24h" -> 1440]

\* the records with timestamp >= now - w
InWindow(label) ==
    {i \in DOMAIN timeseries_data :
        timeseries_data[i].timestamp >= last.timestamp - WindowMinutes[label] * 60000}

AggregateCounter(i) ==
    timeseries_data[i].total_rx_bytes + timeseries_data[i].total_tx_bytes

\* C17: for each window w the usage is null exactly when no record has
\* timestamp >= now - w, and otherwise the largest minus the smallest
\* aggregate counter of the records with timestamp >= now - w; no window
\* depends on records outside it.
C17_UsageIsMaxMinusMinPerWindow ==
    last.kind = "usage" =>
        /\ DOMAIN last.usage[1] = DOMAIN WindowMinutes
        /\ \A label \in DOMAIN WindowMinutes :
               LET u == last.usage[1][label]
               IN  /\ (u = << >>) <=> (InWindow(label) = {})
                   /\ InWindow(label) # {} =>
                          \E i, j \in InWindow(label) :
                              /\ u[1] = AggregateCounter(i) - AggregateCounter(j)
                              /\ \A k \in InWindow(label) :
                                     /\ AggregateCounter(j) <= AggregateCounter(k)
                                     /\ AggregateCounter(k) <= AggregateCounter(i)

\* C17 witness: a record on the cutoff of the 5-minute window and an older
\* one: the 5-minute usage is 0, the 15-minute usage is their difference,
\* and windows differ
C17_Witness ==
    /\ last.kind = "usage"
    /\ Len(timeseries_data) = 2
    /\ timeseries_data[1].timestamp = last.timestamp - 15 * 60000
    /\ timeseries_data[2].timestamp = last.timestamp - 5 * 60000
    /\ last.usage[1]["5m"] = <<0>>
    /\ last.usage[1]["15m"] = <<600>>

\* C18: the usage of the 5-minute window is null whenever fewer than two
\* records lie within the last 5 minutes (exactly one included), and
\* otherwise the non-null maxAgg - minAgg of that window.
C18_FiveMinuteUsageNeedsTwoRecords ==
    last.kind = "usage" =>
        LET u == last.usage[1]["5m"]
            bytes == {AggregateCounter(i) : i \in InWindow("5m")}
        IN  IF Cardinality(InWindow("5m")) < 2
            THEN u = << >>
            ELSE u = <<MaxOf(bytes) - MinOf(bytes)>>

\* the last poll and the one before it are consecutive polls one poll
\* interval apart, with non-decreasing counters, and their records are the
\* two newest of the table
ConsecutivePolls ==
    /\ last.kind = "ok"
    /\ last.sample # << >>
    /\ Elapsed = POLL_INTERVAL
    /\ DownloadDelta >= 0
    /\ UploadDelta >= 0
    /\ Len(timeseries_data) >= 2
    /\ LET n == Len(timeseries_data)
       IN  /\ IsPolled(timeseries_data[n])
           /\ timeseries_data[n].timestamp = last.timestamp
           /\ IsPolled(timeseries_data[n - 1])
           /\ timeseries_data[n - 1].timestamp = last.prevTime[1]

\* C19: for consecutive polls one poll interval apart with non-decreasing
\* counters, the speeds calculateSpeedsFromTimeseries derives from the
\* stored records equal the live speeds of the poll, direction for direction.
C19_SpeedsRecomputableFromHistory ==
    ConsecutivePolls =>
        LET h == calculateSpeedsFromTimeseries(timeseries_data, maxSamples)
        IN  /\ Len(h.download) > 0
            /\ Len(h.upload) = Len(h.download)
            /\ RatEq(LastOf(h.download), last.sample[1].download)
            /\ RatEq(LastOf(h.upload), last.sample[1].upload)

\* the in-memory history after a push of sample onto h
Pushed(h, sample) ==
    IF Len(h) = maxSamples THEN Tail(h) \o <<sample>> ELSE h \o <<sample>>

\* the speed between the stored records i - 1 and i of column c
StoredSpeed(rows, i, rx) ==
    [num |-> (IF rx THEN rows[i].total_rx_bytes - rows[i - 1].total_rx_bytes
              ELSE rows[i].total_tx_bytes - rows[i - 1].total_tx_bytes) * 1000,
     den |-> rows[i].timestamp - rows[i - 1].timestamp]

\* C20: after seeding and after every poll the download and upload arrays
\* of the in-memory history have the same length, at most maxSamples; the
\* seeded arrays hold the most recent samples oldest first, and a sample
\* pushed onto a full history evicts the oldest one.
C20_HistoryBoundedAndRecent ==
    /\ [](/\ Len(bandwidthHistory.download) = Len(bandwidthHistory.upload)
          /\ Len(bandwidthHistory.download) <= maxSamples)
    /\ [][(last' # last /\ last'.sample # << >>) =>
              /\ bandwidthHistory'.download =
                     Pushed(bandwidthHistory.download, last'.sample[1].download)
              /\ bandwidthHistory'.upload =
                     Pushed(bandwidthHistory.upload, last'.sample[1].upload)]_vars
    /\ [][(phase = "boot" /\ phase' = "login" /\ Len(timeseries_data) >= 2) =>
              LET n == Len(timeseries_data)
                  len == Len(bandwidthHistory'.download)
              IN  /\ len = Min(n - 1, maxSamples)
                  /\ \A k \in 1..len :
                         /\ RatEq(bandwidthHistory'.download[k],
                                  StoredSpeed(timeseries_data, n - len + k, TRUE))
                         /\ RatEq(bandwidthHistory'.upload[k],
                                  StoredSpeed(timeseries_data, n - len + k, FALSE))]_vars

\* C20 witness: the history was seeded full from maxSamples + 1 records (the
\* oldest sample 2 B/s over the first two records) and the second poll
\* pushed its sample, evicting that oldest one
C20_Witness ==
    /\ Len(bandwidthHistory.download) = maxSamples
    /\ Len(bandwidthHistory.upload) = maxSamples
    /\ last.sample # << >>
    /\ LastOf(bandwidthHistory.download) = last.sample[1].download
    /\ StoredRecords(maxSamples + 1)[1] = timeseries_data[1]
    /\ Len(timeseries_data) = maxSamples + 3
    /\ RatEq(bandwidthHistory.download[1], [num |-> 6, den |-> 1])

\* q is p followed by zero or more further elements
IsPrefixOf(p, q) == Len(p) <= Len(q) /\ SubSeq(q, 1, Len(p)) = p

\* C21: the time-series log is append-only: every step other than the
\* retention sweep of the start (cleanOldData) leaves the stored records in
\* place, unchanged, and at most appends records after them.
C21_TimeseriesAppendOnly ==
    [][\/ IsPrefixOf(timeseries_data, timeseries_data')
       \/ phase = "boot" /\ phase' = "login"]_vars

\* C21 witness: a poll appended three synthetic records and its own record
\* behind the record of the poll before it
C21_Witness ==
    /\ last.kind = "ok"
    /\ last.inserted = 4
    /\ Len(timeseries_data) = 5
    /\ IsPolled(timeseries_data[1])
    /\ ~IsPolled(timeseries_data[2])
    /\ IsPolled(timeseries_data[5])

C23_PollWritesAllOrNothing ==
    (last.kind \in {"ok", "skipped", "threw"} /\ last.inserted > 0) =>
        LET r == timeseries_data[Len(timeseries_data)]
        IN  IsPolled(r) /\ r.timestamp = last.timestamp

\* the offload sources of the last delivered snapshot that are active: WiFi
\* when enabled, status "On" and an SSID present; Ethernet when enabled, on
\* and an IPv4 address other than "0.0.0.0" present
ActiveOffloads ==
    LET d == last.data[1]
    IN  {x \in {"wifi"} :
            /\ d.wifi.present /\ d.wifi.offload /\ d.wifi.enabled
            /\ d.wifi.statusOn /\ d.wifi.connectionSsid}
        \cup {x \in {"ethernet"} :
            /\ d.ethernet.present /\ d.ethernet.offload /\ d.ethernet.enabled
            /\ d.ethernet.on /\ d.ethernet.ipv4Addr \notin {"", "0.0.0.0"}}

C25_AggregateNonNegative ==
    last.kind = "agg" =>
        /\ last.aggregate[1].totalDownload >= 0
        /\ last.aggregate[1].totalUpload >= 0

\* the last delivered snapshot lacks wifi, wifi.offload or
\* wifi.offload.dataTransferred / lacks ethernet or ethernet.offload
WifiPartMissing ==
    LET d == last.data[1]
    IN  ~d.wifi.present \/ ~d.wifi.offload \/ ~d.wifi.dataTransferred
WifiSourceMissing ==
    LET d == last.data[1] IN ~d.wifi.present \/ ~d.wifi.offload
EthernetSourceMissing ==
    LET d == last.data[1] IN ~d.ethernet.present \/ ~d.ethernet.offload

\* the record the last poll wrote
LastRecord == timeseries_data[Len(timeseries_data)]

\* the poll over a snapshot ended normally with its record written, and the
\* aggregates are the sums of the stored per-source counters
RecordWrittenWithSums ==
    /\ last.kind = "ok"
    /\ last.inserted >= 1
    /\ IsPolled(LastRecord)
    /\ LastRecord.timestamp = last.timestamp
    /\ last.aggregate[1].totalDownload =
           LastRecord.cellular_download[1] + LastRecord.wifi_offload_download[1]
               + LastRecord.ethernet_offload_download[1]
    /\ last.aggregate[1].totalUpload =
           LastRecord.cellular_upload[1] + LastRecord.wifi_offload_upload[1]
               + LastRecord.ethernet_offload_upload[1]

\* C26 as stated: a poll over a snapshot that lacks wifi, wifi.offload,
\* wifi.offload.dataTransferred, ethernet or ethernet.offload writes its
\* record; the source with the missing part is stored with download 0,
\* upload 0 and active flag false.
C26_MissingPartZeroAndInactive ==
    (last.kind \in {"ok", "skipped", "threw"}
        /\ (WifiPartMissing \/ EthernetSourceMissing)) =>
        /\ RecordWrittenWithSums
        /\ WifiPartMissing =>
              /\ LastRecord.wifi_offload_download = <<0>>
              /\ LastRecord.wifi_offload_upload = <<0>>
              /\ LastRecord.wifi_offload_active = <<0>>
        /\ EthernetSourceMissing =>
              /\ LastRecord.ethernet_offload_download = <<0>>
              /\ LastRecord.ethernet_offload_upload = <<0>>
              /\ LastRecord.ethernet_offload_active = <<0>>

\* C26 amended: the poll writes its record and the source with the missing
\* part is stored with download 0 and upload 0; the stored active flag is
\* false when the source object or its offload object is missing, and when
\* only wifi.offload.dataTransferred is missing it is true exactly when the
\* WiFi offload is enabled, "On" and has an SSID.
C26_MissingPartZero ==
    (last.kind \in {"ok", "skipped", "threw"}
        /\ (WifiPartMissing \/ EthernetSourceMissing)) =>
        /\ RecordWrittenWithSums
        /\ WifiPartMissing =>
              /\ LastRecord.wifi_offload_download = <<0>>
              /\ LastRecord.wifi_offload_upload = <<0>>
              /\ WifiSourceMissing => LastRecord.wifi_offload_active = <<0>>
              /\ ~WifiSourceMissing =>
                    (LastRecord.wifi_offload_active = <<1>> <=>
                        /\ last.data[1].wifi.enabled
                        /\ last.data[1].wifi.statusOn
                        /\ last.data[1].wifi.connectionSsid)
        /\ EthernetSourceMissing =>
              /\ LastRecord.ethernet_offload_download = <<0>>
              /\ LastRecord.ethernet_offload_upload = <<0>>
              /\ LastRecord.ethernet_offload_active = <<0>>

\* C26 witness: a poll over a snapshot with an enabled WiFi offload without
\* its dataTransferred object wrote its record, next to Ethernet counters
C26_Witness ==
    /\ last.kind = "ok"
    /\ WifiPartMissing /\ ~WifiSourceMissing
    /\ LastRecord.wifi_offload_download = <<0>>
    /\ LastRecord.wifi_offload_active = <<1>>
    /\ LastRecord.ethernet_offload_download = <<7>>
    /\ last.aggregate[1].totalDownload = 1007

\* C27: startup authentication makes at most 3 attempts; the first poll is
\* started only by an attempt in which initSession and login both succeeded;
\* a failed attempt starts nothing, and the third failed attempt ends the
\* process with exit code 1 and no polling timer.
C27_StartupAuthBounded ==
    [][/\ last'.kind = "login" => last'.attempt <= maxRetries
       /\ (phase = "login" /\ phase' = "initial") =>
              last'.kind = "login" /\ last'.initSession /\ last'.login
       /\ (polls = 0 /\ polls' > 0) => (phase = "login" /\ phase' = "initial")
       /\ (last' # last /\ last'.kind = "login" /\ ~last'.login) =>
              /\ polls' = 0 /\ nextTimer' = << >>
              /\ \A s \in Slots : cycles'[s] = IdleCycle
              /\ IF last'.attempt = maxRetries
                 THEN phase' = "exited" /\ exitCode' = 1
                 ELSE phase' = "login" /\ exitCode' = -1]_vars

\* C27 witness: the third attempt failed at login() and ended the process
C27_Witness ==
    /\ last.kind = "login" /\ last.attempt = 3
    /\ last.initSession /\ ~last.login
    /\ phase = "exited" /\ exitCode = 1 /\ polls = 0 /\ nextTimer = << >>

\* the number of real records in the time series
PolledCount == Cardinality({i \in DOMAIN timeseries_data : IsPolled(timeseries_data[i])})

KeptSevenDays(found, kept) ==
    LET cutoff == now - 7 * DayMs
        Recent == {i \in DOMAIN found : found[i].timestamp >= cutoff}
        Place(i) == Cardinality({j \in Recent : j <= i})
    IN  /\ Len(kept) = Cardinality(Recent)
        /\ \A i \in Recent : kept[Place(i)] = found[i]

\* C29: after cleanOldData(7) at startup each of the two tables holds
\* exactly the records it held whose timestamp is not older than now - 7
\* days; the records with timestamp >= the cutoff are all in place.
C29_RetentionSevenDays ==
    phase = "login" =>
        /\ KeptSevenDays(input.timeseries_data, timeseries_data)
        /\ KeptSevenDays(input.bandwidth_history, bandwidth_history)

\* C29 witness: five records and five speeds were found, the two older than
\* the cutoff are gone from each table and the ones at the cutoff are kept
C29_Witness ==
    /\ phase = "login"
    /\ Len(input.timeseries_data) = 5 /\ Len(input.bandwidth_history) = 5
    /\ Len(timeseries_data) = 3 /\ Len(bandwidth_history) = 3
    /\ timeseries_data[1].timestamp = now - 7 * DayMs
    /\ bandwidth_history[1].timestamp = now - 7 * DayMs

\* C30: the synthetic records of a poll are appended before its real record
\* and carry timestamps strictly smaller than it, and the timestamps of the
\* records of the time series are non-decreasing in the order in which they
\* were appended.
C30_TimestampsNonDecreasing ==
    /\ (last.kind = "ok" /\ last.inserted >= 1) =>
          LET n == Len(timeseries_data)
          IN  /\ IsPolled(timeseries_data[n])
              /\ timeseries_data[n].timestamp = last.timestamp
              /\ \A i \in (n - last.inserted + 1)..(n - 1) :
                    /\ ~IsPolled(timeseries_data[i])
                    /\ timeseries_data[i].timestamp < last.timestamp
    /\ \A i, j \in DOMAIN timeseries_data :
          i < j => timeseries_data[i].timestamp <= timeseries_data[j].timestamp

\* last is the observation of a snapshot handed to displayStats
IsDelivery(l) == l.kind \in {"ok", "skipped", "threw"}

\* C31: snapshots are processed in the order in which their fetches were
\* started: a snapshot handed to displayStats comes from a refresh that was
\* started after the refresh of every snapshot handed over before it, so
\* previousStats never moves back to a snapshot fetched earlier.
C31_ProcessedInFetchOrder ==
    [][(last' # last /\ IsDelivery(last') /\ IsDelivery(last)) =>
          last'.started > last.started]_vars

\* C32: the poll that follows a poll whose snapshot failed validation, and
\* that fetches a valid snapshot, completes its cycle: it does not throw, it
\* appends its record, it computes a speed against the snapshot it finds in
\* previousStats, and previousStats becomes its snapshot.
C32_ValidPollAfterMalformedCompletes ==
    [][(/\ last.kind = "skipped"
        /\ last' # last /\ IsDelivery(last')
        /\ WellFormed(last'.data[1])
        /\ last'.fail = "none") =>
          /\ last'.kind = "ok"
          /\ last'.inserted >= 1
          /\ previousStats' = last'.data
          /\ last'.prev # << >> => last'.sample # << >>]_vars

\* the newest n records of a table found at startup, oldest first
FoundNewest(table, n) == Reverse(SelectLatest(table, n))

\* the adjacent pairs of rows with no negative byte delta and a positive
\* time delta
PairsKept(rows) ==
    {i \in 2..Len(rows) :
        /\ rows[i].total_rx_bytes >= rows[i - 1].total_rx_bytes
        /\ rows[i].total_tx_bytes >= rows[i - 1].total_tx_bytes
        /\ rows[i].timestamp > rows[i - 1].timestamp}

\* C33: the history seeded at startup holds at most maxSamples samples, each
\* >= 0, oldest first: one sample per adjacent pair of the newest records
\* that has no negative byte delta and a positive time delta, in the order
\* of the pairs; the speeds of the legacy table are taken, oldest first, only
\* when no pair gives a sample.
C33_SeededHistory ==
    phase = "login" =>
        LET rows == FoundNewest(input.timeseries_data, maxSamples + 1)
            pairs == PairsKept(rows)
            place == [i \in pairs |-> Cardinality({j \in pairs : j <= i})]
            legacy == FoundNewest(input.bandwidth_history, maxSamples)
            down == bandwidthHistory.download
            up == bandwidthHistory.upload
        IN  /\ Len(down) <= maxSamples
            /\ Len(up) = Len(down)
            /\ \A k \in DOMAIN down : RatGeq0(down[k]) /\ RatGeq0(up[k])
            /\ IF pairs # {}
               THEN /\ Len(down) = Cardinality(pairs)
                    /\ \A i \in pairs :
                          LET seconds ==
                                  (rows[i].timestamp - rows[i - 1].timestamp)
                                      \div 1000
                          IN  /\ RatEq(down[place[i]],
                                       [num |-> rows[i].total_rx_bytes
                                                  - rows[i - 1].total_rx_bytes,
                                        den |-> seconds])
                              /\ RatEq(up[place[i]],
                                       [num |-> rows[i].total_tx_bytes
                                                  - rows[i - 1].total_tx_bytes,
                                        den |-> seconds])
               ELSE /\ Len(down) = Len(legacy)
                    /\ \A k \in DOMAIN legacy :
                          /\ down[k] = legacy[k].download_speed
                          /\ up[k] = legacy[k].upload_speed

\* C33 witness: of four records found, the pairs with a counter reset were
\* skipped and the one pair left gave the only sample, although the legacy
\* table holds speeds
C33_Witness ==
    /\ phase = "login"
    /\ Len(input.timeseries_data) = 4
    /\ Cardinality(PairsKept(input.timeseries_data)) = 1
    /\ Len(bandwidthHistory.download) = 1
    /\ Len(input.bandwidth_history) = 3

\* the records with a lifetime value that are less than 2 poll intervals
\* older than the observed call of handleDataGap
CloseEntries ==
    {i \in DOMAIN timeseries_data :
        /\ timeseries_data[i].lifetime_bytes # << >>
        /\ timeseries_data[i].timestamp > last.timestamp - 2 * POLL_INTERVAL}

\* C34: right after handleDataGap inserted synthetic records for a poll at
\* time t, a record with a lifetime value lies less than 2 poll intervals
\* before t, and from such a record neither a second call with the same
\* timestamp and lifetime value nor the call of a poll one interval later
\* (whatever its lifetime value) inserts anything.
C34_GapNotRepeated ==
    (last.kind = "gap" /\ last.returned /\ last.inserted > 0) =>
        /\ CloseEntries # {}
        /\ \A i \in DOMAIN timeseries_data :
              timeseries_data[i].lifetime_bytes # << >> =>
                  timeseries_data[i].timestamp <= last.timestamp
        /\ \A i \in CloseEntries :
              /\ ~handleDataGapReturns(timeseries_data, i, last.timestamp,
                                       GapCurrentLifetime)
              /\ \A life \in GapLifetimes :
                    ~handleDataGapReturns(timeseries_data, i,
                         last.timestamp + POLL_INTERVAL,
                         TotalLifetimeBytes(WithLifetime(life)))

\* C34 witness: a gap of ten intervals and 4999 ms was filled with nine
\* records, the newest of them 9999 ms before the poll
C34_Witness ==
    /\ last.kind = "gap" /\ last.returned
    /\ last.inserted = 9
    /\ GapDuration = 10 * POLL_INTERVAL + 4999
    /\ timeseries_data[Len(timeseries_data)].timestamp = last.timestamp - 9999

\* C35: within one calculateUsageOverTime call, for windows w1 <= w2, a
\* non-null usage of w1 comes with a non-null usage of w2 that is at least
\* as large, and every non-null usage is >= 0.
C35_UsageMonotoneInWindow ==
    last.kind = "usage" =>
        LET usage == last.usage[1]
        IN  /\ \A w \in DOMAIN usage : usage[w] # << >> => usage[w][1] >= 0
            /\ \A w1, w2 \in DOMAIN usage :
                  (WindowMinutes[w1] <= WindowMinutes[w2] /\ usage[w1] # << >>) =>
                      /\ usage[w2] # << >>
                      /\ usage[w2][1] >= usage[w1][1]

\* C35 witness: the newer of two records holds the smaller counters (a
\* reset); the 5-minute usage is 0, the 15-minute usage is 700, and the
\* windows that reach further back have the same 700
C35_Witness ==
    /\ last.kind = "usage"
    /\ Len(timeseries_data) = 2
    /\ timeseries_data[1].timestamp = last.timestamp - 15 * 60000
    /\ AggregateCounter(1) = 700
    /\ timeseries_data[2].timestamp = last.timestamp
    /\ AggregateCounter(2) = 0
    /\ last.usage[1]["5m"] = <<0>>
    /\ last.usage[1]["15m"] = <<700>>
    /\ last.usage[1]["24h"] = <<700>>

\* every setting of the five display flags
AllDisplayOptions == [DOMAIN DefaultDisplayOptions -> BOOLEAN]

\* C36: the display flags do not influence recorded data: whenever a refresh
\* awaits its snapshot, for every snapshot it may receive, the records in
\* timeseries_data and bandwidth_history, the in-memory history and the
\* assignment of previousStats that follow are the same under every setting
\* of showNetwork, showBandwidth, showHistory, showDevice and showVerbose as
\* under the flags of the run.
C36_FlagsDoNotInfluenceRecords ==
    \A s \in Slots :
        cycles[s].pc = "stats" =>
            \A data \in PollSnapshots, options \in AllDisplayOptions,
               last0 \in (IF LastEntries(timeseries_data) = {} THEN {0}
                          ELSE LastEntries(timeseries_data)) :
                LET a == displayStats(data, now, last0, "none")
                    b == displayStatsWith(options, data, now, last0, "none")
                IN  /\ a.timeseries_data = b.timeseries_data
                    /\ a.bandwidth_history = b.bandwidth_history
                    /\ a.bandwidthHistory = b.bandwidthHistory
                    /\ (a.outcome = "threw") = (b.outcome = "threw")

\* C37: the lifetime value of a poll is a non-negative integer: the value
\* computed from the snapshot handed to displayStats is a number >= 0, and
\* every real record holds a lifetime value >= 0.
C37_LifetimeNonNegativeInteger ==
    /\ (IsDelivery(last) /\ last.aggregate # << >>) =>
          LET lifetimeBytes == TotalLifetimeBytes(last.data[1])
          IN  ~lifetimeBytes.nan /\ lifetimeBytes.n >= 0
    /\ \A i \in DOMAIN timeseries_data :
          IsPolled(timeseries_data[i]) =>
              /\ timeseries_data[i].lifetime_bytes # << >>
              /\ timeseries_data[i].lifetime_bytes[1] >= 0

====
